---- MODULE Spec2Model ----
(***************************************************************************)
(* Protostriker M: the fixed-timestep game loop and state stack of         *)
(* engine/system.py (Game, State), the scrolling viewport of               *)
(* engine/graphics.py, the spawn scheduler, collision sweep and level      *)
(* loader of sprite_manager.py, the weapons of weapons.py, the player of   *)
(* player.py, and the InputManager and FadeAnimation of the engine.        *)
(*                                                                         *)
(* Time values are Python floats (IEEE-754 doubles).  Every double the     *)
(* loop handles is a multiple of 2^-62 below 1/2, so it is written here as *)
(* the exact integer v * 2^62, split in two limbs <<hi, lo>> with          *)
(* v * 2^62 = hi * 2^30 + lo, and added and subtracted with the            *)
(* round-to-nearest-even of a 53-bit significand.                          *)
(***************************************************************************)
EXTENDS Integers, Sequences, FiniteSets, TLC

\* ------------------------------------------------------------------------
\* Bounds of the model
\* ------------------------------------------------------------------------
MaxStack == 2      \* deepest state stack explored
MaxFrames == 2     \* loop iterations explored with state handlers
MaxTimingFrames == 3   \* loop iterations explored in the timing runs

\* ------------------------------------------------------------------------
\* IEEE-754 double arithmetic on multiples of 2^-62
\* ------------------------------------------------------------------------
Limb == 2 ^ 30   \* the weight of the high limb

Pow2(n) == 2 ^ n

\* Number of low bits that do not fit a 53-bit significand: x needs
\* rounding once x >= 2^53, that is hi >= 2^23.
RECURSIVE DropBits(_, _)
DropBits(hi, n) ==
    IF n = 8 THEN 8
    ELSE IF hi < Pow2(23 + n) THEN n
    ELSE DropBits(hi, n + 1)

\* Round x to a 53-bit significand, ties to even.
FRound(x) ==
    LET n == DropBits(x[1], 0)
        q == Pow2(n)
        r == x[2] % q
        base == x[2] - r
        up == /\ n > 0
              /\ \/ 2 * r > q
                 \/ 2 * r = q /\ (base \div q) % 2 = 1
        lo == IF up THEN base + q ELSE base
    IN  IF lo = Limb THEN <<x[1] + 1, 0>> ELSE <<x[1], lo>>

\* a + b as Python computes it
FAdd(a, b) ==
    LET lo == a[2] + b[2]
    IN  FRound(<<a[1] + b[1] + (lo \div Limb), lo % Limb>>)

\* a - b as Python computes it, for a >= b
FSub(a, b) ==
    LET borrow == IF a[2] < b[2] THEN 1 ELSE 0
    IN  FRound(<<a[1] - b[1] - borrow, a[2] - b[2] + borrow * Limb>>)

\* a >= b
FGE(a, b) == a[1] > b[1] \/ (a[1] = b[1] /\ a[2] >= b[2])

\* a > b
FGT(a, b) == a[1] > b[1] \/ (a[1] = b[1] /\ a[2] > b[2])

FZero == <<0, 0>>

\* TIMESTEP = 1 / 60.0 = 0.016666666666666666
TIMESTEP == <<71582788, 286331152>>

\* the frame-time cap 0.25
MaxTick == <<Limb, 0>>

\* clock.tick() / 1000.0 for the frame times (milliseconds) explored
Seconds(ms) ==
    CASE ms = 0   -> <<0, 0>>
      [] ms = 5   -> <<21474836, 515396076>>
      [] ms = 34  -> <<146028888, 68719488>>
      [] ms = 45  -> <<193273528, 343597376>>
      [] ms = 250 -> <<1073741824, 0>>
      [] ms = 300 -> <<1288490188, 858993408>>

\* frame times of the state-stack specification and of the timing one
FrameMs == {5, 34}
TimingFrameMs == {5, 45, 250, 300}

\* cap the max frame time
ClampTick(tick) == IF FGT(tick, MaxTick) THEN MaxTick ELSE tick


\* ------------------------------------------------------------------------
\* State of the program
\* ------------------------------------------------------------------------
VARIABLES
    states,          \* Game.states, bottom first
    current_state,   \* the local current_state of Game.run (0: not yet bound)
    paused,          \* Game.paused
    accumulator,     \* Game.accumulator
    alpha,           \* Game.alpha, kept as the exact quotient <<num, den>>
    pc,              \* position of Game.run
    transitioning,   \* State.transitioning of every State object
    is_exiting,      \* State.is_exiting
    done_exiting,    \* State.done_exiting
    frames,          \* loop iterations started
    sum_ms,          \* sum of the clamped frame times, in milliseconds
    over_clamp,      \* some measured frame time exceeded the clamp
    updates,         \* update() calls made by Game.run so far
    iter_updates,    \* update() calls of the current loop iteration
    acc_at_input,    \* accumulator at the input step of the iteration
    trans_at_input,  \* current_state.transitioning at the input step
    input_called,    \* handle_input() was called in this iteration
    update_targets,  \* states that received update() in this iteration
    last_call,       \* the last handle_input()/update() call of Game.run
    drawn,           \* states drawn by the last draw step, in order
    records,         \* the enemies created so far: [dx, boss], by identity
    enemy_queue,     \* SpriteManager.enemy_queue: identities, in order
    enemy_group,     \* sprites['enemy_group']
    level_pos,       \* Viewport.level_pos, in thirds of a pixel
    scroll_ticks,    \* Viewport.update() calls so far
    tick_no,         \* SpriteManager.update() calls so far
    spawn_count,     \* spawn() calls made on each enemy
    spawn_tick,      \* the update() call that spawned each enemy (0: none)
    first_trigger,   \* first update() call that met a queued enemy's
                     \* trigger condition (0: none yet)
    spawn_order,     \* enemies in the order they joined enemy_group
    boss_level,      \* Game.boss_level
    hitbox,          \* enemy.hitbox of each enemy: a list of boxes, each
                     \* [width, touch: it overlaps the player's hitbox]
    hits,            \* enemy.hits of each enemy
    bullets,         \* the player bullets fired so far: [destroyable,
                     \* over: the enemy boxes <<e, k>> it overlaps]
    player_shots,    \* sprites['player_shots']: identities of bullets
    player,          \* the Player: protected, respawning, lives, alive
                     \* (in its group), moved (hitbox put at y = -10)
    ghost,           \* the hitbox at y = -10 still overlaps what it did
    explosions,      \* sprites['explosions']: [kind, box], box the state
                     \* of the sprite's hitbox: "none", "miss" or "touch"
    enemy_shots,     \* sprites['enemy_shots']: [touch] of each bullet
    powerups,        \* sprites['powerups']: [touch] of each powerup
    tally,           \* per enemy: explode() calls and score credits
    power_ups,       \* player.power_up() calls so far
    owner_pc,        \* the caller of check_collisions: "idle" or
                     \* "returned" (holding the value returned)
    player_die,      \* the value the last check_collisions returned
    sweeps,          \* check_collisions() calls so far
    ev,              \* what the last check_collisions() call did, in order
    pre,             \* the state the last check_collisions() call began in
    phase_log,       \* the phases run so far, in order
    coordinate,      \* Viewport.coordinate, a float in units of 2^-52
    last_coordinate, \* Viewport.last_coordinate, likewise
    maxScroll,       \* Viewport.maxScroll, in pixels
    draw_args,       \* arguments of an interpolate_draw() call:
                     \* [current, last, boss_level]
    calls,           \* State methods the last stack operation called
    below,           \* Game.states when the last stack operation began
    last_op,         \* the last stack operation or State method called
    weapons,         \* the weapon objects: Player.weapons, or one weapon
                     \* on its own; emits counts its emitting fire() calls
    current_weapon_index,   \* Player.current_weapon_index
    current_weapon,  \* Player.current_weapon: position of the object in
                     \* weapons
    now,             \* the clock, in milliseconds
    fire_calls,      \* fire() calls made on the lone weapon
    inputs,          \* Player.handle_input() calls so far
    fire_log,        \* the last fire() call: weapon before and after,
                     \* current_time, bullets returned
    power_log,       \* the last power_up() call: weapon before and after
    input_log,       \* the last Player.handle_input() call
    level_text,      \* the level file: its lines, each a list of words
    load_state,      \* load_level(): "no" call yet, "loaded", or the
                     \* exception it raised
    draw_pos,        \* outcome of the last interpolate_draw() call:
                     \* "none" yet, "returned" value, or "raised"
    config_mode,     \* InputManager.config_mode
    set,             \* InputManager.set: the values refused by
                     \* redefine_button
    user_bound,      \* InputManager.user_bound
    redefined,       \* InputManager.redefined
    pressed,         \* InputManager.pressed
    held,            \* InputManager.held
    reply,           \* the last InputManager call, its outcome and the
                     \* user_bound it began with
    fade             \* the FadeAnimation given to transition_off

gameVars == <<states, current_state, paused, accumulator, alpha, pc,
              transitioning, is_exiting, done_exiting>>
histVars == <<frames, sum_ms, over_clamp, updates, iter_updates,
              acc_at_input, trans_at_input, input_called, update_targets,
              last_call, drawn>>
spawnVars == <<records, enemy_queue, enemy_group, level_pos, scroll_ticks,
               tick_no, spawn_count, spawn_tick, first_trigger, spawn_order>>
foeVars == <<hitbox, hits, tally>>
shotVars == <<boss_level, bullets, player_shots, player, ghost, explosions,
              enemy_shots, powerups, power_ups, owner_pc, player_die,
              sweeps, ev, pre>>
collideVars == <<foeVars, shotVars, phase_log>>
scrollVars == <<coordinate, last_coordinate, maxScroll>>
drawVars == <<draw_args, draw_pos>>
stackVars == <<calls, below, last_op>>
armVars == <<weapons, current_weapon_index, current_weapon, now,
             fire_calls, inputs, fire_log, power_log, input_log>>
levelVars == <<level_text, load_state>>
padVars == <<config_mode, set, user_bound, redefined, pressed, held, reply>>
otherVars == <<scrollVars, drawVars, stackVars, armVars, levelVars, padVars,
               fade>>
vars == <<gameVars, histVars, spawnVars, collideVars, otherVars>>

\* State objects: those stacked, the one bound in run(), and a new one
StateIds == 1 .. (MaxStack + 2)

NoCall == [kind |-> "none", target |-> 0, top |-> 0, paused |-> FALSE]

\* ------------------------------------------------------------------------
\* Game and State methods, as functions of the stack and the State fields
\*   w.states, w.transitioning, w.is_exiting, w.done_exiting, w.paused,
\*   w.error (an IndexError was raised and is propagating),
\*   w.calls (the State methods called so far: <<method, state, transition
\*   given>>, in order)
\* ------------------------------------------------------------------------
World ==
    [states |-> states, transitioning |-> transitioning,
     is_exiting |-> is_exiting, done_exiting |-> done_exiting,
     paused |-> paused, error |-> FALSE, calls |-> <<>>]

\* State.__init__
NewState(w, s) ==
    [w EXCEPT !.transitioning[s] = FALSE, !.is_exiting[s] = FALSE,
              !.done_exiting[s] = FALSE]

\* State.activate(transition): t is "a transition object was passed"
activate(w, s, t) ==
    [w EXCEPT !.transitioning[s] = t,
              !.calls = Append(@, <<"activate", s, t>>)]

\* State.reactivate(transition)
reactivate(w, s, t) ==
    [w EXCEPT !.transitioning[s] = t,
              !.calls = Append(@, <<"reactivate", s, t>>)]

\* State.transition_off(transition)
transition_off(w, s) ==
    [w EXCEPT !.transitioning[s] = TRUE, !.is_exiting[s] = TRUE]

\* State.update(): still is the value transition.update(now) returns
\* a state set to exit is done whatever its transition says
Exited_early(tr, exiting) == exiting

\* `if not self.transitioning and self.is_exiting`
Exited(tr, exiting) == ~tr /\ exiting

State_update(w, s, still) ==
    LET tr == IF w.transitioning[s] THEN still ELSE FALSE
        w1 == [w EXCEPT !.transitioning[s] = tr]
    IN  IF Exited(tr, w.is_exiting[s])
        THEN [w1 EXCEPT !.done_exiting[s] = TRUE]
        ELSE w1

\* the state goes under the stack
push_state_under(w, s, t) ==
    activate([w EXCEPT !.states = <<s>> \o w.states], s, t)

\* Game.push_state(state, transition)
push_state(w, s, t) ==
    activate([w EXCEPT !.states = Append(w.states, s)], s, t)

\* Game.pop_state(transition): states.pop(), then get_current_state()
\* raises IndexError when nothing is left
pop_state(w, t) ==
    LET rest == SubSeq(w.states, 1, Len(w.states) - 1)
        w1 == [w EXCEPT !.states = rest]
    IN  IF Len(w.states) = 0 \/ rest = <<>>
        THEN [w1 EXCEPT !.error = TRUE]
        ELSE reactivate(w1, rest[Len(rest)], t)

\* State.unload_content / State.load_content: nothing but the call
unload_content(w, s) ==
    [w EXCEPT !.calls = Append(@, <<"unload_content", s, FALSE>>)]

load_content(w, s) ==
    [w EXCEPT !.calls = Append(@, <<"load_content", s, FALSE>>)]

\* `while self.states:` unload the top state and pop it
RECURSIVE unload_all(_)
unload_all(w) ==
    IF w.states = <<>> THEN w
    ELSE LET w1 == unload_content(w, w.states[Len(w.states)])
         IN  unload_all([w1 EXCEPT !.states =
                             SubSeq(w.states, 1, Len(w.states) - 1)])

\* only the top state is replaced
change_state_top(w, s, t) ==
    IF w.states = <<>> THEN push_state(load_content(w, s), s, t)
    ELSE LET w1 == unload_content(w, w.states[Len(w.states)])
             w2 == [w1 EXCEPT !.states =
                        SubSeq(w.states, 1, Len(w.states) - 1)]
         IN  push_state(load_content(w2, s), s, t)

\* Game.change_state(state, transition)
change_state(w, s, t) ==
    LET w1 == load_content(unload_all(w), s)
    IN  activate([w1 EXCEPT !.states = Append(w1.states, s)], s, t)

\* the pause toggle of the gameplay states
toggle_pause(w) == [w EXCEPT !.paused = ~w.paused]

\* State objects referenced by the stack or by run()
Live(w) == {w.states[i] : i \in 1 .. Len(w.states)} \cup {current_state}

\* The State object a constructor call returns: one that is not referenced
\* (object identities are interchangeable, so the first free one is taken)
Fresh(w) ==
    LET free == StateIds \ Live(w)
    IN  {s \in free : \A u \in free : s <= u}

\* Fields of State objects nothing references any more are forgotten
Collect(f, live) == [s \in StateIds |-> IF s \in live THEN f[s] ELSE FALSE]

\* What the handle_input()/update() override of a state does to the game
Ops == {"none", "push", "pop", "change", "transition_off", "pause"}
NoOps == {"none"}

Handler(w, self, op, s, t) ==
    CASE op = "none" -> w
      [] op = "push" -> push_state(NewState(w, s), s, t)
      [] op = "pop" -> pop_state(w, t)
      [] op = "change" -> change_state(NewState(w, s), s, t)
      [] op = "transition_off" -> transition_off(w, self)
      [] op = "pause" -> toggle_pause(w)

\* the new State object an op needs (0 when it needs none)
OpArgs(w, op) ==
    IF op \in {"push", "change"} THEN Fresh(w) ELSE {0}

OpAllowed(w, op) ==
    op = "push" => Len(w.states) < MaxStack

\* write a world back to the variables
Commit(w) ==
    /\ states' = w.states
    /\ transitioning' = w.transitioning
    /\ is_exiting' = w.is_exiting
    /\ done_exiting' = w.done_exiting
    /\ paused' = w.paused

Top(seq) == seq[Len(seq)]

\* ------------------------------------------------------------------------
\* Game.run
\* ------------------------------------------------------------------------
ClampMs == 250   \* the frame-time cap in milliseconds

\* truth value of a State object in `while(current_state)`: the class
\* defines neither __nonzero__ nor __len__, so every instance is true
Truthy(s) == TRUE

\* input delivered whatever the transitioning flag says
InputAllowed_always(s) == TRUE

\* `if not current_state.transitioning` before handle_input()
InputAllowed(s) == ~transitioning[s]

\* `if` in place of `while`: at most one update per frame
CatchUpDone_once == iter_updates >= 1 \/ ~FGE(accumulator, TIMESTEP)

\* exit condition of `while self.accumulator >= TIMESTEP`
CatchUpDone == ~FGE(accumulator, TIMESTEP)

\* the states the draw step draws, in order
DrawStates == states

InitSprites ==
    /\ records = <<>>
    /\ enemy_queue = <<>>
    /\ enemy_group = {}
    /\ level_pos = 0
    /\ scroll_ticks = 0
    /\ tick_no = 0
    /\ spawn_count = <<>>
    /\ spawn_tick = <<>>
    /\ first_trigger = <<>>
    /\ spawn_order = <<>>

LongestScroll == 10   \* the largest maxScroll explored, in pixels

\* a new Viewport over a background LongestScroll pixels wider than the
\* screen
InitViewport ==
    /\ coordinate = FZero
    /\ last_coordinate = FZero
    /\ maxScroll = LongestScroll

NoDraw == [state |-> "none", value |-> <<0, 1>>]

\* no interpolate_draw() call made yet
InitDraw ==
    /\ draw_args = [current |-> 0, last |-> 0, boss_level |-> FALSE]
    /\ draw_pos = NoDraw

NoOp == [name |-> "none", s |-> 0, t |-> FALSE]

\* no stack operation made yet
InitCalls ==
    /\ calls = <<>>
    /\ below = <<>>
    /\ last_op = NoOp

WeaponKinds == {"BasicWeapon", "Spreader", "ReverseFire", "Laser"}

\* the __init__ of each weapon class; the subclasses run
\* BasicWeapon.__init__ and overwrite some fields
NewWeapon(kind) ==
    LET basic == [kind |-> kind, speed |-> 380, speed_increment |-> 65,
                  max_speed |-> 185, last_shot |-> 0, angles |-> <<0>>,
                  emits |-> 0]
    IN  CASE kind = "BasicWeapon" -> basic
          [] kind = "Spreader" ->
                 [basic EXCEPT !.speed = 575, !.max_speed = 380,
                               !.angles = <<0, 10, 350>>]
          [] kind = "ReverseFire" ->
                 [basic EXCEPT !.angles = <<0, 140, 220>>]
          [] kind = "Laser" ->
                 [basic EXCEPT !.speed = 1250, !.speed_increment = 150,
                               !.max_speed = 800]

\* Player.__init__: self.weapons
PlayerWeapons ==
    <<NewWeapon("BasicWeapon"), NewWeapon("Spreader"),
      NewWeapon("ReverseFire"), NewWeapon("Laser")>>

NoFire == [called |-> FALSE, w |-> 0, at |-> 0,
           before |-> NewWeapon("BasicWeapon"),
           after |-> NewWeapon("BasicWeapon"), shots |-> <<>>]

NoPower == [called |-> FALSE, w |-> 0,
            before |-> NewWeapon("BasicWeapon"),
            after |-> NewWeapon("BasicWeapon")]

NoInput == [called |-> FALSE, Y |-> FALSE, B |-> FALSE, handled |-> FALSE,
            index_before |-> 0, index_after |-> 0, fired |-> 0,
            before |-> PlayerWeapons, after |-> PlayerWeapons,
            shots |-> <<>>]

\* nothing called on the weapons yet
InitLogs ==
    /\ now = 0
    /\ fire_calls = 0
    /\ inputs = 0
    /\ fire_log = NoFire
    /\ power_log = NoPower
    /\ input_log = NoInput

\* a new Player's weapons
InitArms ==
    /\ weapons = PlayerWeapons
    /\ current_weapon_index = 0
    /\ current_weapon = 1
    /\ InitLogs

\* no level file read
InitLevel ==
    /\ level_text = <<>>
    /\ load_state = "no"

\* the logical buttons: the keys of default_bound and user_bound
Buttons ==
    {"RIGHT", "LEFT", "UP", "DOWN", "SELECT", "START", "B", "A", "Y", "X"}

\* Physical values are written as the text of the Python value: a key
\* constant by its name, a gamepad button by its number, a hat direction
\* by its string, a hat tuple by its digits.
Diagonals == <<"(-1, 1)", "(1, 1)", "(1, -1)", "(-1, -1)">>

default_bound ==
    [b \in Buttons |->
        CASE b = "RIGHT" -> <<"K_RIGHT", "right">>
          [] b = "LEFT" -> <<"K_LEFT", "left">>
          [] b = "UP" -> <<"K_UP", "up">>
          [] b = "DOWN" -> <<"K_DOWN", "down">>
          [] b = "SELECT" -> <<"K_QUOTE", "6">>
          [] b = "START" -> <<"K_RETURN", "7">>
          [] b = "B" -> <<"K_z", "0">>
          [] b = "A" -> <<"K_x", "1">>
          [] b = "Y" -> <<"K_a", "2">>
          [] b = "X" -> <<"K_s", "3">>]

\* every logical button without a binding
Unbound == [b \in Buttons |-> <<>>]

\* no key, button, hat direction or stick direction
NoneDown == [keys |-> <<>>, buttons |-> <<>>, dpad |-> <<>>, stick |-> <<>>]

NoReply ==
    [op |-> "none", button |-> "none", value |-> "none", out |-> "none",
     taken |-> FALSE, before |-> Unbound]

\* InputManager.__init__
InitPad ==
    /\ config_mode = FALSE
    /\ set = Diagonals
    /\ user_bound = Unbound
    /\ redefined = FALSE
    /\ pressed = NoneDown
    /\ held = NoneDown
    /\ reply = NoReply

NoFade == [fade_type |-> "none", alpha |-> 0, started |-> 0]

\* no FadeAnimation made
InitFade == fade = NoFade

InitOther ==
    /\ InitViewport
    /\ InitDraw
    /\ InitCalls
    /\ InitArms
    /\ InitLevel
    /\ InitPad
    /\ InitFade

StartLives == 3   \* Player.lives of a new Player

ShipWidth == 32    \* self.image.get_width() of the ship
ProtectMs == 2000  \* Player.protect_duration

\* Player.dx is kept in half pixels: where explode() puts the ship, and
\* where update() releases it
RespawnStart == 2 * (-20 - ShipWidth)
RespawnEnd == 2 * 16

\* a new Player, or with respawning one that has just exploded at time 0;
\* explode_time and protect_duration do not exist before the first
\* explode() and are read only under protected, which explode() sets
NewPlayer(lives, protected, respawning) ==
    [protected |-> protected, respawning |-> respawning, lives |-> lives,
     alive |-> TRUE, moved |-> FALSE,
     dx |-> IF respawning THEN RespawnStart ELSE 0,
     explode_time |-> 0, protect_duration |-> ProtectMs]

\* what check_collisions() begins with, kept for the properties
Snapshot ==
    [player |-> player, player_shots |-> player_shots,
     enemy_group |-> enemy_group, hits |-> hits, tally |-> tally,
     explosions |-> explosions, enemy_shots |-> enemy_shots]

\* no level loaded: empty groups, a new Player
InitGroups ==
    /\ boss_level = FALSE
    /\ hitbox = <<>>
    /\ hits = <<>>
    /\ tally = <<>>
    /\ bullets = <<>>
    /\ player_shots = {}
    /\ player = NewPlayer(StartLives, FALSE, FALSE)
    /\ ghost = FALSE
    /\ explosions = <<>>
    /\ enemy_shots = <<>>
    /\ powerups = <<>>
    /\ power_ups = 0
    /\ owner_pc = "idle"
    /\ player_die = FALSE
    /\ sweeps = 0
    /\ ev = <<>>
    /\ pre = Snapshot
    /\ phase_log = <<>>

Init ==
    /\ InitSprites
    /\ InitGroups
    /\ InitOther
    /\ states = <<>>
    /\ current_state = 0
    /\ paused = FALSE
    /\ accumulator = FZero
    /\ alpha = <<FZero, TIMESTEP>>
    /\ pc = "init"
    /\ transitioning = [s \in StateIds |-> FALSE]
    /\ is_exiting = [s \in StateIds |-> FALSE]
    /\ done_exiting = [s \in StateIds |-> FALSE]
    /\ frames = 0
    /\ sum_ms = 0
    /\ over_clamp = FALSE
    /\ updates = 0
    /\ iter_updates = 0
    /\ acc_at_input = FZero
    /\ trans_at_input = FALSE
    /\ input_called = FALSE
    /\ update_targets = {}
    /\ last_call = NoCall
    /\ drawn = <<>>

\* push_state() calls made before run(), as PsmGame.__init__ does
PushInitial ==
    /\ pc = "init"
    /\ Len(states) < MaxStack
    /\ \E s \in Fresh(World), t \in BOOLEAN :
           Commit(push_state(NewState(World, s), s, t))
    /\ UNCHANGED <<otherVars,
                   current_state, accumulator, alpha, pc, histVars,
                   spawnVars, collideVars>>

\* run(): current_state = self.get_current_state()
RunEnter ==
    /\ pc = "init"
    /\ IF states = <<>>
       THEN pc' = "crashed" /\ UNCHANGED current_state
       ELSE pc' = "loop" /\ current_state' = Top(states)
    /\ UNCHANGED <<otherVars,
                   states, paused, accumulator, alpha, transitioning,
                   is_exiting, done_exiting, histVars, spawnVars, collideVars>>

\* loop test, state refresh, frame time measured, clamped and accumulated
LoopHead(F, limit) ==
    /\ pc = "loop"
    /\ frames < limit
    /\ IF ~Truthy(current_state)
       THEN /\ pc' = "returned"
            /\ UNCHANGED <<current_state, accumulator, histVars>>
       ELSE IF states = <<>>
       THEN /\ pc' = "crashed"
            /\ UNCHANGED <<current_state, accumulator, histVars>>
       ELSE \E ms \in F :
            /\ current_state' = Top(states)
            /\ accumulator' = FAdd(accumulator, ClampTick(Seconds(ms)))
            /\ frames' = frames + 1
            /\ sum_ms' = sum_ms + (IF ms > ClampMs THEN ClampMs ELSE ms)
            /\ over_clamp' = (over_clamp \/ ms > ClampMs)
            /\ iter_updates' = 0
            /\ input_called' = FALSE
            /\ update_targets' = {}
            /\ acc_at_input' = accumulator'
            /\ trans_at_input' = transitioning[current_state']
            /\ pc' = "input"
            /\ UNCHANGED <<updates, last_call, drawn>>
    /\ LET live == {states[i] : i \in 1 .. Len(states)}
       IN  /\ transitioning' = Collect(transitioning, live)
           /\ is_exiting' = Collect(is_exiting, live)
           /\ done_exiting' = Collect(done_exiting, live)
    /\ UNCHANGED <<otherVars,
                   states, paused, alpha, spawnVars, collideVars>>

\* pass input to state if not transitioning
HandleInput(ops) ==
    /\ pc = "input"
    /\ IF InputAllowed(current_state)
       THEN \E op \in ops : \E s \in OpArgs(World, op), t \in BOOLEAN :
            /\ OpAllowed(World, op)
            /\ LET w == Handler(World, current_state, op, s, t)
               IN  /\ Commit(w)
                   /\ pc' = IF w.error THEN "crashed" ELSE "update"
            /\ input_called' = TRUE
            /\ last_call' = [kind |-> "handle_input",
                             target |-> current_state,
                             top |-> Top(states), paused |-> paused]
       ELSE /\ pc' = "update"
            /\ UNCHANGED <<states, paused, transitioning, is_exiting,
                           done_exiting, input_called, last_call>>
    /\ UNCHANGED <<otherVars,
                   current_state, accumulator, alpha, frames, sum_ms,
                   over_clamp, updates, iter_updates, acc_at_input,
                   trans_at_input, update_targets, drawn, spawnVars,
                   collideVars>>

\* one pass of the catch-up loop: current_state.update(), then
\* accumulator -= TIMESTEP
Update(ops) ==
    /\ pc = "update"
    /\ ~CatchUpDone
    /\ \E op \in ops : \E s \in OpArgs(World, op), t \in BOOLEAN,
                          still \in BOOLEAN :
       LET w1 == State_update(World, current_state, still)
           w == Handler(w1, current_state, op, s, t)
       IN  /\ OpAllowed(w1, op)
           /\ Commit(w)
           /\ pc' = IF w.error THEN "crashed" ELSE "update"
           /\ accumulator' = IF w.error THEN accumulator
                             ELSE FSub(accumulator, TIMESTEP)
    /\ updates' = updates + 1
    /\ iter_updates' = iter_updates + 1
    /\ update_targets' = update_targets \cup {current_state}
    /\ last_call' = [kind |-> "update", target |-> current_state,
                     top |-> Top(states), paused |-> paused]
    /\ UNCHANGED <<otherVars,
                   current_state, alpha, frames, sum_ms, over_clamp,
                   acc_at_input, trans_at_input, input_called, drawn,
                   spawnVars, collideVars>>

\* store alpha for interpolated draws
StoreAlpha ==
    /\ pc = "update"
    /\ CatchUpDone
    /\ alpha' = <<accumulator, TIMESTEP>>
    /\ pc' = "draw"
    /\ UNCHANGED <<otherVars,
                   states, current_state, paused, accumulator,
                   transitioning, is_exiting, done_exiting, histVars,
                   spawnVars, collideVars>>

\* draw all states, scale and flip the buffer
Draw ==
    /\ pc = "draw"
    /\ drawn' = DrawStates
    /\ pc' = "loop"
    /\ UNCHANGED <<otherVars,
                   states, current_state, paused, accumulator, alpha,
                   transitioning, is_exiting, done_exiting, frames, sum_ms,
                   over_clamp, updates, iter_updates, acc_at_input,
                   trans_at_input, input_called, update_targets, last_call,
                   spawnVars, collideVars>>

Frame == LoopHead(FrameMs, MaxFrames)
StateHandleInput == HandleInput(Ops)
StateUpdate == Update(Ops)

Next ==
    \/ PushInitial
    \/ RunEnter
    \/ Frame
    \/ StateHandleInput
    \/ StateUpdate
    \/ StoreAlpha
    \/ Draw

Spec == Init /\ [][Next]_vars

\* The loop driving a state whose handlers leave the stack alone, under
\* frame times up to and beyond the clamp
TimingFrame == LoopHead(TimingFrameMs, MaxTimingFrames)
BaseHandleInput == HandleInput(NoOps)
BaseUpdate == Update(NoOps)

NextTiming ==
    \/ PushInitial
    \/ RunEnter
    \/ TimingFrame
    \/ BaseHandleInput
    \/ BaseUpdate
    \/ StoreAlpha
    \/ Draw

SpecTiming == Init /\ [][NextTiming]_vars

\* ------------------------------------------------------------------------
\* Properties of Game.run
\* ------------------------------------------------------------------------

\* the number of passes `while a >= TIMESTEP: a -= TIMESTEP` makes from a
RECURSIVE DrainCount(_)
DrainCount(a) ==
    IF FGE(a, TIMESTEP) THEN 1 + DrainCount(FSub(a, TIMESTEP)) ELSE 0

\* C1: after every completed loop iteration, with all frame times within
\* the 0.25 s clamp, the update() calls made so far number
\* floor(sum of frame times / TIMESTEP) = floor(sum_ms * 60 / 1000)
\* (the count half of the claim: no tick is lost or duplicated).
C1_TicksEqualFloorOfElapsed ==
    (pc = "loop" /\ ~over_clamp) => updates = (sum_ms * 60) \div 1000

\* C2: every handle_input() and update() call of Game.run goes to the state
\* that is on top of the stack at the moment of the call.
C2_CallsGoToTopOfStack ==
    last_call.kind # "none" => last_call.target = last_call.top

\* C3: once a handler has emptied the state stack, run() has returned
\* normally.
C3_RunReturnsWhenStackEmpty ==
    (states = <<>> /\ last_call.kind # "none") => pc = "returned"

\* C4: no update() call is made while paused is true, and every draw step
\* draws every state of the stack.
C4_NoUpdateWhilePaused ==
    /\ last_call.kind = "update" => ~last_call.paused
    /\ (pc = "loop" /\ frames > 0) => drawn = states

\* C5: in an iteration whose current state is transitioning at the input
\* step, handle_input() is not called, and by the draw the state (and no
\* other) has received one update() per TIMESTEP the catch-up loop drains
\* from the accumulator.
C5_TransitioningFreezesInputOnly ==
    /\ trans_at_input => ~input_called
    /\ (pc = "draw" /\ trans_at_input) =>
           /\ iter_updates = DrainCount(acc_at_input)
           /\ update_targets \subseteq {current_state}
           /\ (iter_updates > 0 => update_targets = {current_state})

C5_Witness ==
    pc = "draw" /\ trans_at_input /\ ~input_called /\ iter_updates = 2

\* C6: at every draw, 0 <= accumulator < TIMESTEP and
\* alpha = accumulator / TIMESTEP is in [0, 1).
C6_AlphaInUnitInterval ==
    pc = "draw" =>
        /\ FGE(accumulator, FZero)
        /\ ~FGE(accumulator, TIMESTEP)
        /\ alpha = <<accumulator, TIMESTEP>>
        /\ FGE(alpha[1], FZero) /\ ~FGE(alpha[1], alpha[2])

C6_Witness ==
    pc = "draw" /\ iter_updates >= 15 /\ accumulator # FZero /\ frames >= 2

\* C7: a single loop iteration makes at most 15 update() calls.
C7_AtMost15UpdatesPerFrame == iter_updates <= 15

\* ------------------------------------------------------------------------
\* Viewport.update and SpriteManager.update (the spawn scheduler)
\* ------------------------------------------------------------------------
MaxRecords == 3       \* enemies a level creates
MaxScrollTicks == 3   \* Viewport.update() calls explored
MaxSpawnUpdates == 3  \* SpriteManager.update() calls explored

Width == 320          \* Viewport.width
ScrollStep == 5       \* advance_velocity * TIMESTEP = 100/60 px, in thirds

\* trigger positions a level file gives its enemies: one on screen from
\* the start, two that scroll in after 2 and 3 viewport updates
TriggerXs == {300, 322, 325}

\* the enemies create_enemy() can build: enemies.EnemyN at x, or enemies.Boss
EnemyKinds ==
    [dx : TriggerXs, boss : {FALSE}] \cup [dx : {325}, boss : {TRUE}]

\* isinstance(enemy, enemies.Boss)
IsBoss(e) == records[e].boss

\* a test no enemy passes
Triggered_never(e) == FALSE

\* viewport.level_pos + viewport.width >= enemy.dx
Triggered(e) == level_pos + 3 * Width >= 3 * records[e].dx

\* the test of the spawn loop: a Boss always, another enemy once triggered
ShouldSpawn(e) == IsBoss(e) \/ Triggered(e)

\* list.index(x): position of the first element equal to x
RECURSIVE IndexFrom(_, _, _)
IndexFrom(q, x, i) == IF q[i] = x THEN i ELSE IndexFrom(q, x, i + 1)

index(q, x) == IndexFrom(q, x, 1)

\* a list that keeps the element it was asked to drop
pop_keep(q, i) == q

\* list.pop(i): the list without its i-th element
pop(q, i) == SubSeq(q, 1, i - 1) \o SubSeq(q, i + 1, Len(q))

\* list.remove(x)
remove(q, x) == pop(q, index(q, x))

\* `for enemy in self.enemy_queue:` with the queue changed inside the loop.
\* Python's list iterator keeps a position i and stops once i is past the
\* end of the list as it is then; out collects the spawned enemies.
RECURSIVE SpawnLoop(_, _, _)
SpawnLoop(q, i, out) ==
    IF i > Len(q) THEN [queue |-> q, out |-> out]
    ELSE LET enemy == q[i]
         IN  IF IsBoss(enemy)
             THEN SpawnLoop(remove(q, enemy), i + 1, Append(out, enemy))
             ELSE IF Triggered(enemy)
             THEN SpawnLoop(pop(q, index(q, enemy)), i + 1,
                            Append(out, enemy))
             ELSE SpawnLoop(q, i + 1, out)

Range(seq) == {seq[i] : i \in 1 .. Len(seq)}

HurtboxWidth == 7   \* the width of the only Boss box that takes damage
BodyWidth == HurtboxWidth + 9   \* the width of any other box

\* the boxes of a new enemy, none of them overlapping the player yet
NewBoxes(kind) ==
    IF kind.boss
    THEN <<[width |-> BodyWidth, touch |-> FALSE],
           [width |-> HurtboxWidth, touch |-> FALSE]>>
    ELSE <<[width |-> BodyWidth, touch |-> FALSE]>>

\* the record kept of an enemy whose hit counter starts at n: explode()
\* calls made on it, times its points were scored, hits it took from
\* destroyable bullets (taken) and from beams (beamed), and hits that
\* handed it no damage (glanced)
NoTally(n) ==
    [start |-> n, exploded |-> 0, scored |-> 0, taken |-> 0, beamed |-> 0,
     glanced |-> 0]

\* SpriteManager.create_enemy, called by load_level for each record
create_enemy ==
    /\ Len(records) < MaxRecords
    /\ \E kind \in EnemyKinds :
       /\ records' = Append(records, kind)
       /\ enemy_queue' = Append(enemy_queue, Len(records) + 1)
       /\ spawn_count' = Append(spawn_count, 0)
       /\ spawn_tick' = Append(spawn_tick, 0)
       /\ first_trigger' = Append(first_trigger, 0)
       /\ hitbox' = Append(hitbox, NewBoxes(kind))
       /\ hits' = Append(hits, 0)
       /\ tally' = Append(tally, NoTally(0))
    /\ UNCHANGED <<otherVars,
                   enemy_group, level_pos, scroll_ticks, tick_no,
                   spawn_order, gameVars, histVars, shotVars, phase_log>>

\* advance_velocity * TIMESTEP = 100 * (1 / 60.0) = 1.6666666666666667,
\* the double 7505999378950827 * 2^-52
AdvanceStep == <<6990506, 715827883>>

\* a whole number of pixels as a float in units of 2^-52
Pixels(n) == <<n * Pow2(22), 0>>

\* no wrap at maxScroll
Wrapped_never(c, limit) == FALSE

\* loop image: the advanced coordinate is past maxScroll
Wrapped(c, limit) == FGT(c, Pixels(limit))

\* Viewport.update: coordinate and level_pos advance by
\* advance_velocity * TIMESTEP; past maxScroll, coordinate and
\* last_coordinate go back to 0
Viewport_update(limit) ==
    /\ scroll_ticks < limit
    /\ scroll_ticks' = scroll_ticks + 1
    /\ level_pos' = level_pos + ScrollStep
    /\ LET c == FAdd(coordinate, AdvanceStep)
       IN  IF Wrapped(c, maxScroll)
           THEN coordinate' = FZero /\ last_coordinate' = FZero
           ELSE coordinate' = c /\ last_coordinate' = coordinate
    /\ UNCHANGED <<levelVars, padVars, fade, armVars,
                   maxScroll, drawVars, stackVars,
                   records, enemy_queue, enemy_group, tick_no, spawn_count,
                   spawn_tick, first_trigger, spawn_order, gameVars,
                   histVars, collideVars>>

\* an update() with something run between its two loops
UpdatePhases_apart == <<"update", "collision", "spawn">>

\* the phases of one SpriteManager.update() call: the loop over the
\* sprites, then the loop over the queue
UpdatePhases == <<"update", "spawn">>

\* SpriteManager.update: the sprites update (an enemy may kill() itself),
\* then the queue is scanned for enemies to spawn
SpriteManager_update ==
    /\ tick_no < MaxSpawnUpdates
    /\ tick_no' = tick_no + 1
    /\ \E gone \in SUBSET enemy_group :
       LET r == SpawnLoop(enemy_queue, 1, <<>>)
       IN  /\ enemy_queue' = r.queue
           /\ enemy_group' = (enemy_group \ gone) \cup Range(r.out)
           /\ spawn_order' = spawn_order \o r.out
           /\ spawn_count' =
                  [e \in DOMAIN spawn_count |->
                      spawn_count[e] +
                      Cardinality({i \in 1 .. Len(r.out) : r.out[i] = e})]
           /\ spawn_tick' =
                  [e \in DOMAIN spawn_tick |->
                      IF e \in Range(r.out) THEN tick_no' ELSE spawn_tick[e]]
    /\ first_trigger' =
           [e \in DOMAIN first_trigger |->
               IF first_trigger[e] = 0 /\ e \in Range(enemy_queue)
                  /\ ShouldSpawn(e)
               THEN tick_no' ELSE first_trigger[e]]
    /\ phase_log' = phase_log \o UpdatePhases
    /\ UNCHANGED <<otherVars,
                   records, level_pos, scroll_ticks, gameVars, histVars,
                   foeVars, shotVars>>

\* the viewport of the spawn runs scrolls
SpawnScroll == Viewport_update(MaxScrollTicks)

NextSpawn ==
    \/ create_enemy
    \/ SpawnScroll
    \/ SpriteManager_update

SpecSpawn == Init /\ [][NextSpawn]_vars

\* ------------------------------------------------------------------------
\* Properties of the spawn scheduler
\* ------------------------------------------------------------------------
Enemies == 1 .. Len(records)

\* C8: a non-boss record is not spawned before an update() call meets its
\* trigger condition, and is spawned by the first update() call that does.
C8_SpawnedOnFirstTriggeredUpdate ==
    \A e \in Enemies :
        ~IsBoss(e) =>
            /\ spawn_tick[e] # 0 => first_trigger[e] # 0
            /\ first_trigger[e] # 0 => spawn_tick[e] = first_trigger[e]

\* position of e in spawn_order
Rank(e) == index(spawn_order, e)

\* C9: triggered non-boss records are released in queue order: if a
\* precedes b in the queue and a's trigger condition was met when b was
\* spawned, a joined the enemy group before b.
C9_ReleasedInQueueOrder ==
    \A a \in Enemies, b \in Enemies :
        (/\ a < b
         /\ ~IsBoss(a) /\ ~IsBoss(b)
         /\ spawn_tick[b] # 0
         /\ first_trigger[a] # 0 /\ first_trigger[a] <= spawn_tick[b])
        => (spawn_tick[a] # 0 /\ Rank(a) < Rank(b))

\* C10: every created record is either still queued or has been spawned,
\* never both, spawn() is called on it at most once, and the queue holds
\* no record twice.
C10_ConsumedAtMostOnce ==
    /\ \A e \in Enemies :
           /\ spawn_count[e] <= 1
           /\ (e \in Range(enemy_queue)) <=> (spawn_count[e] = 0)
    /\ Cardinality(Range(enemy_queue)) = Len(enemy_queue)
    /\ Range(enemy_queue) \subseteq Enemies

C10_Witness ==
    /\ tick_no >= 2
    /\ \E a \in Enemies, b \in Enemies :
           /\ spawn_count[a] = 1 /\ a \notin Range(enemy_queue)
           /\ spawn_tick[a] < tick_no
           /\ b \in Range(enemy_queue) /\ spawn_count[b] = 0

\* C11: a Boss record that was in the queue when update() was called is
\* not in the queue afterwards, wherever the viewport is.
C11_BossLeavesQueueOnUpdate ==
    \A e \in Enemies :
        (IsBoss(e) /\ first_trigger[e] # 0) => e \notin Range(enemy_queue)

\* ------------------------------------------------------------------------
\* SpriteManager.check_collisions
\* ------------------------------------------------------------------------
MaxHits == 1        \* largest hit counter an enemy starts with
MaxShots == 2       \* player bullets fired where bullets are studied
MaxCrashShots == 1  \* player bullets fired where crashes are studied
MaxSweeps == 2      \* check_collisions() calls explored
MaxShotSweeps == 1  \* the same where bullets are studied
MaxLives == 1       \* largest number of lives left

FoeCounts == {1, 2}   \* enemies alive when the level is entered

\* the box widths of an enemy: one body box, or a body and a hurtbox
Layouts == {<<BodyWidth>>, <<BodyWidth, HurtboxWidth>>}

\* the orders in which a pygame Group can hand out its sprites: a Group
\* keeps them in a dict, and iterating it walks a copy of the key list
Orders(S) ==
    {s \in [1 .. Cardinality(S) -> S] :
        \A i, j \in 1 .. Cardinality(S) : i # j => s[i] # s[j]}

\* one entry of ev: what happened (t) to enemy e at its box k by bullet b,
\* with the damage d handed to enemy.hit()
Event(t, e, k, b, d) == [t |-> t, e |-> e, k |-> k, b |-> b, d |-> d]

Log(c, event) == [c EXCEPT !.ev = Append(@, event)]

\* player.hitbox.colliderect(...) for something that overlapped the hitbox
\* where it was when the call began
PlayerOverlaps(c, touch) == touch /\ (c.player.moved => ghost)

\* a Player.explode() that respawns the ship whatever lives is
Player_explode_respawn(c) ==
    [c EXCEPT !.player.explode_time = now,
              !.player.protect_duration = ProtectMs,
              !.player.protected = TRUE, !.player.respawning = TRUE,
              !.player.dx = RespawnStart]

\* Player.explode(): the time is kept; with lives left the ship respawns
\* protected from off screen, without it is killed and its hitbox put at
\* y = -10
Player_explode(c) ==
    LET c1 == [c EXCEPT !.player.explode_time = now,
                        !.player.protect_duration = ProtectMs]
    IN  IF c.player.lives > 0
        THEN [c1 EXCEPT !.player.protected = TRUE,
                        !.player.respawning = TRUE,
                        !.player.dx = RespawnStart]
        ELSE [c1 EXCEPT !.player.alive = FALSE, !.player.moved = TRUE]

\* an add_sprite() that adds nothing
AddExplosion_none(c, kind) == c

\* self.add_sprite(sprite, 'explosions'); the new sprite has no hitbox
AddExplosion(c, kind) ==
    [c EXCEPT !.explosions = Append(@, [kind |-> kind, box |-> "none"])]

\* enemy.kill()
Enemy_kill(c, e) == [c EXCEPT !.enemy_group = @ \ {e}]

\* enemy.explode(): kill the enemy, get an explosion sprite
Enemy_explode(c, e) ==
    [Enemy_kill(c, e) EXCEPT !.tally[e].exploded = @ + 1]

\* enemy.hit(damage)
Enemy_hit(c, e, damage) == [c EXCEPT !.hits[e] = @ - damage]

\* bullet.kill()
Bullet_kill(c, b) == [c EXCEPT !.player_shots = @ \ {b}]

\* a collision test that forgets the protection
PlayerHit_unprotected(c, touch) == PlayerOverlaps(c, touch)

\* player.hitbox.colliderect(box) and not player.protected
PlayerHit(c, touch) == PlayerOverlaps(c, touch) /\ ~c.player.protected

\* a group that keeps its sprites when emptied
Group_empty_keep(c) == c

\* self.sprites['player_shots'].empty()
Group_empty(c) == [c EXCEPT !.player_shots = {}]

\* `for box in enemy.hitbox:` of the player check, from box k on
RECURSIVE PlayerVsBoxes(_, _, _)
PlayerVsBoxes(c, e, k) ==
    IF k > Len(hitbox[e]) THEN c
    ELSE IF PlayerHit(c, hitbox[e][k].touch)
    THEN LET c1 == Player_explode(Group_empty(c))
             c2 == IF ~boss_level
                   THEN AddExplosion(Enemy_explode(Enemy_kill(c1, e), e),
                                     "enemy")
                   ELSE c1
             c3 == [AddExplosion(c2, "player") EXCEPT !.player_die = TRUE]
         IN  PlayerVsBoxes(Log(c3, Event("crash", e, k, 0, 0)), e, k + 1)
    ELSE PlayerVsBoxes(c, e, k + 1)

\* an enemy that needs one hit less than its counter says
Armoured_less(c, e) == c.hits[e] > 1

\* if enemy.hits > 0
Armoured(c, e) == c.hits[e] > 0

\* a bullet that is never taken out of its group
Consumed_never(b) == FALSE

\* the unconditional bullet.kill() of the enemy.hits > 0 branch
Consumed(b) == TRUE

\* the damage of a bullet: 1, or 2 for a beam
Damage(b) == IF bullets[b].destroyable THEN 1 ELSE 2

\* the damage handed to enemy.hit() through a box
Dealt(e, k, b) ==
    IF boss_level
    THEN IF hitbox[e][k].width # HurtboxWidth THEN 0 ELSE Damage(b)
    ELSE Damage(b)

\* the hit of bullet b through box k of enemy e, added to the tally
Tallied(c, e, k, b) ==
    IF Dealt(e, k, b) = 0 THEN [c EXCEPT !.tally[e].glanced = @ + 1]
    ELSE IF bullets[b].destroyable THEN [c EXCEPT !.tally[e].taken = @ + 1]
    ELSE [c EXCEPT !.tally[e].beamed = @ + 1]

\* `for box in enemy.hitbox:` of the bullet check, from box k on; drop
\* tells whether an explode() of this call hands back a powerup
RECURSIVE BulletVsBoxes(_, _, _, _, _)
BulletVsBoxes(c, e, b, k, drop) ==
    IF k > Len(hitbox[e]) THEN c
    ELSE IF <<e, k>> \in bullets[b].over
    THEN IF Armoured(c, e)
         THEN LET c1 == IF Consumed(b) THEN Bullet_kill(c, b) ELSE c
                  c2 == Tallied(Enemy_hit(c1, e, Dealt(e, k, b)), e, k, b)
              IN  BulletVsBoxes(Log(c2, Event("hit", e, k, b, Dealt(e, k, b))),
                                e, b, k + 1, drop)
         ELSE LET c1 == IF bullets[b].destroyable THEN Bullet_kill(c, b)
                        ELSE c
                  c2 == AddExplosion(Enemy_explode(c1, e), "enemy")
                  c3 == IF drop
                        THEN [c2 EXCEPT !.powerups =
                                            Append(@, [touch |-> FALSE])]
                        ELSE c2
                  c4 == [c3 EXCEPT !.tally[e].scored = @ + 1]
              IN  BulletVsBoxes(Log(c4, Event("destroy", e, k, b, 0)),
                                e, b, k + 1, drop)
    ELSE BulletVsBoxes(c, e, b, k + 1, drop)

\* `for bullet in self.sprites['player_shots']:` over the copy bs
RECURSIVE BulletsVsEnemy(_, _, _, _, _)
BulletsVsEnemy(c, e, bs, i, drop) ==
    IF i > Len(bs) THEN c
    ELSE BulletsVsEnemy(BulletVsBoxes(c, e, bs[i], 1, drop), e, bs, i + 1,
                        drop)

\* the members of a group in the order given, as its iterator copies them
Sprites(order, group) == SelectSeq(order, LAMBDA x : x \in group)

\* `for enemy in self.sprites['enemy_group']:` over the copy es
RECURSIVE EnemyLoop(_, _, _, _, _)
EnemyLoop(c, es, i, border, drop) ==
    IF i > Len(es) THEN c
    ELSE LET c1 == PlayerVsBoxes(c, es[i], 1)
             c2 == BulletsVsEnemy(c1, es[i],
                                  Sprites(border, c1.player_shots), 1, drop)
         IN  EnemyLoop(c2, es, i + 1, border, drop)

\* a shrapnel test that forgets the protection
ShrapnelHit_unprotected(c, box) ==
    /\ box # "none"
    /\ PlayerOverlaps(c, box = "touch")
    /\ ~c.player.respawning

\* shrapnel.hitbox is not None, and it overlaps the hitbox of a player
\* neither respawning nor protected
ShrapnelHit(c, box) ==
    /\ box # "none"
    /\ PlayerOverlaps(c, box = "touch")
    /\ ~c.player.respawning /\ ~c.player.protected

\* `for shrapnel in self.sprites['explosions']:` over the copy xs
RECURSIVE ShrapnelLoop(_, _, _)
ShrapnelLoop(c, xs, i) ==
    IF i > Len(xs) THEN c
    ELSE IF ShrapnelHit(c, xs[i].box)
    THEN LET c1 == AddExplosion(Player_explode(c), "player")
             c2 == [c1 EXCEPT !.player_die = TRUE]
         IN  ShrapnelLoop(Log(c2, Event("shrapnel", 0, 0, i, 0)), xs, i + 1)
    ELSE ShrapnelLoop(c, xs, i + 1)

\* `for bullet in self.sprites['enemy_shots']:`; the bullets that hit are
\* killed, which c.spent collects
RECURSIVE EnemyShotLoop(_, _)
EnemyShotLoop(c, i) ==
    IF i > Len(enemy_shots) THEN c
    ELSE IF PlayerHit(c, enemy_shots[i].touch)
    THEN LET c1 == AddExplosion(Player_explode(c), "player")
             c2 == [c1 EXCEPT !.player_die = TRUE, !.spent = @ \cup {i}]
         IN  EnemyShotLoop(Log(c2, Event("shot", 0, 0, i, 0)), i + 1)
    ELSE EnemyShotLoop(c, i + 1)

\* `for powerup in self.sprites['powerups']:` over the copy ps; collect()
\* takes the powerup out of its group, which c.taken collects
RECURSIVE PowerupLoop(_, _, _)
PowerupLoop(c, ps, i) ==
    IF i > Len(ps) THEN c
    ELSE IF PlayerOverlaps(c, ps[i].touch)
    THEN LET c1 == [c EXCEPT !.power_ups = @ + 1, !.taken = @ \cup {i}]
         IN  PowerupLoop(Log(c1, Event("powerup", 0, 0, i, 0)), ps, i + 1)
    ELSE PowerupLoop(c, ps, i + 1)

\* a group's list without the sprites killed
RECURSIVE Without(_, _, _)
Without(seq, dead, i) ==
    IF i > Len(seq) THEN <<>>
    ELSE (IF i \in dead THEN <<>> ELSE <<seq[i]>>) \o Without(seq, dead, i + 1)

\* the body of check_collisions(player), the groups walked in the orders
\* eorder and border
Sweep(eorder, border, drop) ==
    LET c0 == [player |-> player, player_shots |-> player_shots,
               enemy_group |-> enemy_group, hits |-> hits, tally |-> tally,
               explosions |-> explosions, powerups |-> powerups,
               power_ups |-> power_ups, spent |-> {}, taken |-> {},
               player_die |-> FALSE, ev |-> <<>>]
        c1 == EnemyLoop(c0, eorder, 1, border, drop)
        c2 == ShrapnelLoop(c1, c1.explosions, 1)
        c3 == EnemyShotLoop(c2, 1)
    IN  PowerupLoop(c3, c3.powerups, 1)

\* SpriteManager.check_collisions(player), called once per tick
check_collisions(limit) ==
    /\ owner_pc = "idle"
    /\ sweeps < limit
    /\ sweeps' = sweeps + 1
    /\ \E eorder \in Orders(enemy_group), border \in Orders(player_shots),
          drop \in BOOLEAN :
       \E c \in {Sweep(eorder, border, drop)} :
           /\ player' = c.player
           /\ player_shots' = c.player_shots
           /\ enemy_group' = c.enemy_group
           /\ hits' = c.hits
           /\ tally' = c.tally
           /\ explosions' = c.explosions
           /\ enemy_shots' = Without(enemy_shots, c.spent, 1)
           /\ powerups' = Without(c.powerups, c.taken, 1)
           /\ power_ups' = c.power_ups
           /\ player_die' = c.player_die
           /\ ev' = c.ev
    /\ pre' = Snapshot
    /\ owner_pc' = "returned"
    /\ phase_log' = Append(phase_log, "collision")
    /\ UNCHANGED <<otherVars,
                   boss_level, hitbox, bullets, ghost, records, enemy_queue,
                   level_pos, scroll_ticks, tick_no, spawn_count, spawn_tick,
                   first_trigger, spawn_order, gameVars, histVars>>

\* the caller of check_collisions takes the value returned: a ship lost
\* costs a life while there is one
Owner_takes_result ==
    /\ owner_pc = "returned"
    /\ owner_pc' = "idle"
    /\ player' = IF player_die /\ player.lives > 0
                 THEN [player EXCEPT !.lives = @ - 1]
                 ELSE player
    /\ UNCHANGED <<otherVars,
                   boss_level, hitbox, hits, tally, bullets, player_shots,
                   ghost, explosions, enemy_shots, powerups, power_ups,
                   player_die, sweeps, ev, pre, phase_log, spawnVars,
                   gameVars, histVars>>

\* the boxes of all enemies, as <<enemy, index>>
BoxIds == {<<e, k>> \in (1 .. Len(hitbox)) \X (1 .. 2) : k <= Len(hitbox[e])}

\* what a bullet can overlap: one box, or every box
ShotAreas == {{x} : x \in BoxIds} \cup {BoxIds}

\* a bullet across the whole field
CrashAreas == {BoxIds}

\* a number that tells two kinds of bullet apart
ShotRank(d, over) ==
    (IF d THEN 0 ELSE 1)
    + 2 * (IF over = BoxIds THEN 0
           ELSE LET x == CHOOSE y \in over : TRUE IN 2 * x[1] + x[2])

\* the bullets of one tick are interchangeable (the group hands them out
\* in any order), so they are listed in one order only
Listed(d, over) ==
    IF bullets = <<>> THEN TRUE
    ELSE IF bullets[Len(bullets)].born < sweeps THEN TRUE
    ELSE ShotRank(d, over) >= ShotRank(bullets[Len(bullets)].destroyable,
                                       bullets[Len(bullets)].over)

\* Weapon.fire() with the fire button held: a bullet joins player_shots;
\* a respawning player takes no input
Weapon_fire(areas, limit) ==
    /\ owner_pc = "idle"
    /\ ~player.respawning /\ player.alive
    /\ Len(bullets) < limit
    /\ \E d \in BOOLEAN, over \in areas :
           /\ Listed(d, over)
           /\ bullets' = Append(bullets, [destroyable |-> d, over |-> over,
                                          born |-> sweeps])
    /\ player_shots' = player_shots \cup {Len(bullets) + 1}
    /\ UNCHANGED <<otherVars,
                   boss_level, player, ghost, explosions, enemy_shots,
                   powerups, power_ups, owner_pc, player_die, sweeps, ev,
                   pre, foeVars, phase_log, spawnVars, gameVars, histVars>>

\* enemies are interchangeable (the group hands them out in any order),
\* so a level of two enemies is listed in one order only
FoeRank(layout, touching, h, e) ==
    4 * h[e] + 2 * (Len(layout[e]) - 1) + (IF e \in touching THEN 1 ELSE 0)

ListedFoes(n, layout, touching, h) ==
    \A e \in 1 .. (n - 1) :
        FoeRank(layout, touching, h, e) <= FoeRank(layout, touching, h, e + 1)

\* a level in play: n enemies on screen with the given boxes and hit
\* counters, those in touching overlap the player
InPlay(n, layout, touching, h) ==
    /\ records = [e \in 1 .. n |->
                     [dx |-> 300, boss |-> Len(layout[e]) > 1]]
    /\ enemy_queue = <<>>
    /\ enemy_group = 1 .. n
    /\ level_pos = 0
    /\ scroll_ticks = 0
    /\ tick_no = 0
    /\ spawn_count = [e \in 1 .. n |-> 1]
    /\ spawn_tick = [e \in 1 .. n |-> 0]
    /\ first_trigger = [e \in 1 .. n |-> 0]
    /\ spawn_order = [e \in 1 .. n |-> e]
    /\ hitbox = [e \in 1 .. n |->
                    [k \in 1 .. Len(layout[e]) |->
                        [width |-> layout[e][k], touch |-> e \in touching]]]
    /\ hits = h
    /\ tally = [e \in 1 .. n |-> NoTally(h[e])]
    /\ bullets = <<>>
    /\ player_shots = {}
    /\ power_ups = 0
    /\ owner_pc = "idle"
    /\ player_die = FALSE
    /\ sweeps = 0
    /\ ev = <<>>
    /\ phase_log = <<>>

InitGame ==
    /\ states = <<>>
    /\ current_state = 0
    /\ paused = FALSE
    /\ accumulator = FZero
    /\ alpha = <<FZero, TIMESTEP>>
    /\ pc = "init"
    /\ transitioning = [s \in StateIds |-> FALSE]
    /\ is_exiting = [s \in StateIds |-> FALSE]
    /\ done_exiting = [s \in StateIds |-> FALSE]
    /\ frames = 0
    /\ sum_ms = 0
    /\ over_clamp = FALSE
    /\ updates = 0
    /\ iter_updates = 0
    /\ acc_at_input = FZero
    /\ trans_at_input = FALSE
    /\ input_called = FALSE
    /\ update_targets = {}
    /\ last_call = NoCall
    /\ drawn = <<>>

\* bullets against enemies: nothing touches the player
InitShots ==
    /\ InitGame
    /\ InitOther
    /\ \E n \in FoeCounts :
       \E layout \in [1 .. n -> Layouts], h \in [1 .. n -> 0 .. MaxHits] :
           ListedFoes(n, layout, {}, h) /\ InPlay(n, layout, {}, h)
    /\ boss_level \in BOOLEAN
    /\ player = NewPlayer(MaxLives, FALSE, FALSE)
    /\ ghost = FALSE
    /\ explosions = <<>>
    /\ enemy_shots = <<>>
    /\ powerups = <<>>
    /\ pre = Snapshot

\* the sprites that can be around the player besides the enemies
Hazards ==
    {{}, {"shrapnel"}, {"shot"}, {"shrapnel", "shot", "powerup"}}

\* the player among enemies, shrapnel, enemy bullets and powerups
InitCrash ==
    /\ InitGame
    /\ InitOther
    /\ \E n \in FoeCounts :
       \E layout \in [1 .. n -> Layouts], touching \in SUBSET (1 .. n),
          h \in [1 .. n -> {0, MaxHits}] :
           /\ ListedFoes(n, layout, touching, h)
           /\ InPlay(n, layout, touching, h)
    /\ boss_level \in BOOLEAN
    /\ \E lives \in 0 .. MaxLives, protected \in BOOLEAN,
          respawning \in BOOLEAN :
           /\ player = NewPlayer(lives, protected, respawning)
           /\ ghost \in (IF lives = 0 THEN BOOLEAN ELSE {FALSE})
    /\ \E around \in Hazards :
           /\ explosions = IF "shrapnel" \in around
                           THEN <<[kind |-> "enemy", box |-> "touch"]>>
                           ELSE <<>>
           /\ enemy_shots = IF "shot" \in around
                            THEN <<[touch |-> TRUE]>> ELSE <<>>
           /\ powerups = IF "powerup" \in around
                         THEN <<[touch |-> TRUE]>> ELSE <<>>
    /\ pre = Snapshot

ShotsFire == Weapon_fire(ShotAreas, MaxShots)
CrashFire == Weapon_fire(CrashAreas, MaxCrashShots)
ShotsSweep == check_collisions(MaxShotSweeps)
CrashSweep == check_collisions(MaxSweeps)

NextShots ==
    \/ ShotsFire
    \/ ShotsSweep
    \/ Owner_takes_result

SpecShots == InitShots /\ [][NextShots]_vars

NextCrash ==
    \/ CrashFire
    \/ CrashSweep
    \/ Owner_takes_result

SpecCrash == InitCrash /\ [][NextCrash]_vars

\* a level loaded by load_level: its records queued in file order, nothing
\* on screen yet, a new Player
InitTick ==
    /\ InitGame
    /\ InitOther
    /\ \E n \in FoeCounts : \E kinds \in [1 .. n -> EnemyKinds] :
           /\ records = kinds
           /\ enemy_queue = [e \in 1 .. n |-> e]
           /\ spawn_count = [e \in 1 .. n |-> 0]
           /\ spawn_tick = [e \in 1 .. n |-> 0]
           /\ first_trigger = [e \in 1 .. n |-> 0]
           /\ hitbox = [e \in 1 .. n |-> NewBoxes(kinds[e])]
           /\ hits = [e \in 1 .. n |-> 0]
           /\ tally = [e \in 1 .. n |-> NoTally(0)]
    /\ enemy_group = {}
    /\ level_pos = 0
    /\ scroll_ticks = 0
    /\ tick_no = 0
    /\ spawn_order = <<>>
    /\ boss_level = FALSE
    /\ bullets = <<>>
    /\ player_shots = {}
    /\ player = NewPlayer(StartLives, FALSE, FALSE)
    /\ ghost = FALSE
    /\ explosions = <<>>
    /\ enemy_shots = <<>>
    /\ powerups = <<>>
    /\ power_ups = 0
    /\ owner_pc = "idle"
    /\ player_die = FALSE
    /\ sweeps = 0
    /\ ev = <<>>
    /\ pre = Snapshot
    /\ phase_log = <<>>

NextTick ==
    \/ SpawnScroll
    \/ SpriteManager_update
    \/ CrashSweep
    \/ Owner_takes_result

SpecTick == InitTick /\ [][NextTick]_vars

\* ------------------------------------------------------------------------
\* Properties of the collision resolver
\* ------------------------------------------------------------------------
BulletEvents == {"hit", "destroy"}

\* positions of ev at which the player crashed into an enemy
Crashes == {i \in 1 .. Len(ev) : ev[i].t = "crash"}

\* positions of ev at which a bullet met an enemy box
BulletHits == {i \in 1 .. Len(ev) : ev[i].t \in BulletEvents}

\* C12 as stated: the player check of every enemy comes before any bullet
\* check, so a call in which the player crashes into an enemy registers
\* no bullet hit at all.
C12_CrashPreventsEveryBulletHit ==
    Crashes # {} => BulletHits = {}

\* C12, amended: the enemies are taken one at a time, the player check of
\* an enemy before its bullet check; once the player has crashed into an
\* enemy no bullet hit is registered on that enemy or on one taken later.
C12_NoBulletHitAfterCrash ==
    \A i \in Crashes, j \in BulletHits : j < i /\ ev[j].e # ev[i].e

\* a bullet hit on the enemy taken first, then a crash into the second
C12_Witness ==
    /\ owner_pc = "returned"
    /\ \E i \in Crashes, j \in BulletHits : j < i
    /\ player_shots = {}

Harm(b) ==
    {i \in BulletHits : ev[i].b = b /\ (ev[i].t = "destroy" \/ ev[i].d > 0)}

\* C14: in one check_collisions() call a destroyable bullet damages or
\* destroys through at most one hitbox, of one enemy or of several.
C14_DestroyableBulletHitsOnce ==
    \A b \in 1 .. Len(bullets) :
        bullets[b].destroyable => Cardinality(Harm(b)) <= 1

\* C15: a beam (a bullet that is not destroyable) that met enemies is
\* still in player_shots, whatever their hit counters were; no crash of
\* the player emptied the group.
C15_BeamStaysInPlayerShots ==
    \A b \in 1 .. Len(bullets) :
        (~bullets[b].destroyable /\ Crashes = {}) => b \in player_shots

\* C16: on a boss level a bullet that meets a box of the Boss whose width
\* is not 7 hands the Boss no damage and does not destroy it, whatever the
\* hit counter of the Boss is.
C16_OnlyHurtboxHarmsBoss ==
    boss_level =>
        \A i \in BulletHits :
            (IsBoss(ev[i].e)
             /\ hitbox[ev[i].e][ev[i].k].width # HurtboxWidth)
            => (ev[i].t = "hit" /\ ev[i].d = 0)

\* the last check_collisions() call has just returned
Returned == owner_pc = "returned"

\* positions of ev at which the player exploded
Explodes == {i \in 1 .. Len(ev) : ev[i].t \in {"crash", "shrapnel", "shot"}}

\* enemies alive when the call began that overlapped the player's hitbox
Touching ==
    {e \in pre.enemy_group :
        \E k \in 1 .. Len(hitbox[e]) :
            hitbox[e][k].touch /\ (pre.player.moved => ghost)}

\* the explosions the call added
Added == SubSeq(explosions, Len(pre.explosions) + 1, Len(explosions))

\* C17: a call that begins with player.protected true never explodes the
\* player, clears no shots (a bullet leaves player_shots only by hitting
\* an enemy), consumes no enemy bullet and returns False.
C17_ProtectedPlayerTakesNoDamage ==
    (Returned /\ pre.player.protected) =>
        /\ Explodes = {}
        /\ player = pre.player
        /\ \A b \in pre.player_shots \ player_shots :
               \E i \in BulletHits : ev[i].b = b
        /\ enemy_shots = pre.enemy_shots
        /\ player_die = FALSE

\* a protected player in touch with an enemy, shrapnel and an enemy
\* bullet, with a shot in flight, after the call
C17_Witness ==
    /\ Returned /\ pre.player.protected
    /\ Touching # {}
    /\ \E i \in 1 .. Len(pre.explosions) : pre.explosions[i].box = "touch"
    /\ \E i \in 1 .. Len(pre.enemy_shots) : pre.enemy_shots[i].touch
    /\ pre.player_shots # {} /\ player_shots # {}

\* C18 as stated: on a non-boss level a call that begins with the player
\* unprotected removes every enemy the player overlaps, empties
\* player_shots, adds the explosions and returns True.
C18_CrashRemovesTouchedEnemy ==
    (Returned /\ ~boss_level /\ ~pre.player.protected) =>
        \A e \in Touching :
            /\ e \notin enemy_group
            /\ player_shots = {}
            /\ player_die = TRUE

\* C18, amended: on a non-boss level a call that begins with the player
\* unprotected and overlapping enemies crashes it into the first of them
\* the sweep takes; every enemy it crashes into is removed and exploded,
\* player_shots is emptied, a player explosion and the enemy's explosion
\* are added and the call returns True.
C18_CrashRemovesEnemyCrashedInto ==
    (Returned /\ ~boss_level) =>
        /\ (~pre.player.protected /\ Touching # {}) => Crashes # {}
        /\ \A i \in Crashes :
               /\ ev[i].e \in Touching
               /\ ev[i].e \notin enemy_group
               /\ tally[ev[i].e].exploded > pre.tally[ev[i].e].exploded
               /\ player_shots = {}
               /\ \E x \in 1 .. Len(Added) : Added[x].kind = "player"
               /\ \E x \in 1 .. Len(Added) : Added[x].kind = "enemy"
               /\ player_die = TRUE

\* two enemies overlapped, a shot in flight: the player crashed into one,
\* the other is still there
C18_Witness ==
    /\ Returned /\ ~boss_level /\ ~pre.player.protected
    /\ pre.player_shots # {}
    /\ Cardinality(Touching) = 2
    /\ Cardinality({ev[i].e : i \in Crashes}) = 1
    /\ Touching \cap enemy_group # {}

MaxScrollUpdates == 12   \* Viewport.update() calls of the scrolling runs

\* the values of maxScroll (background width - 320) explored
ScrollLimits == 0 .. LongestScroll

\* Viewport.draw: interpolate_draw is called with two arguments and takes
\* three (current, last, boss_level), so the call raises TypeError
Viewport_draw ==
    /\ draw_pos = NoDraw
    /\ draw_args' = [current |-> coordinate, last |-> last_coordinate]
    /\ draw_pos' = [state |-> "raised", value |-> <<0, 1>>]
    /\ UNCHANGED <<levelVars, padVars, fade, armVars,
                   scrollVars, stackVars, gameVars, histVars, spawnVars,
                   collideVars>>

\* Viewport.update of a run that has not raised
ScrollUpdate ==
    /\ draw_pos = NoDraw
    /\ Viewport_update(MaxScrollUpdates)

InitScroll ==
    /\ InitGame
    /\ InitSprites
    /\ InitGroups
    /\ InitDraw
    /\ InitLevel
    /\ InitPad
    /\ InitFade
    /\ InitCalls
    /\ InitArms
    /\ coordinate = FZero
    /\ last_coordinate = FZero
    /\ maxScroll \in ScrollLimits

NextScroll ==
    \/ ScrollUpdate
    \/ Viewport_draw

SpecScroll == InitScroll /\ [][NextScroll]_vars

\* C21: starting from coordinate 0 with maxScroll >= 0, coordinate is
\* within [0, maxScroll] after every Viewport.update call.
C21_CoordinateWithinScrollRange ==
    /\ FGE(coordinate, FZero)
    /\ ~FGT(coordinate, Pixels(maxScroll))

\* an update has wrapped the coordinate of a scrolling viewport back to 0
C21_Witness ==
    /\ maxScroll > 1
    /\ scroll_ticks > 1
    /\ coordinate = FZero

\* C22: an update that pushes coordinate past maxScroll ends with
\* coordinate and last_coordinate both 0, and after every update
\* 0 <= coordinate - last_coordinate <= advance_velocity * TIMESTEP.
C22_StepAtMostAdvance ==
    [][scroll_ticks' = scroll_ticks + 1 =>
          /\ Wrapped(FAdd(coordinate, AdvanceStep), maxScroll) =>
                 coordinate' = FZero /\ last_coordinate' = FZero
          /\ FGE(coordinate', last_coordinate')
          /\ ~FGT(FSub(coordinate', last_coordinate'), AdvanceStep)]_vars

\* the values of Game.alpha explored, as quotients: 0, 0.25, 0.5, 0.75
Alphas == {<<0, 4>>, <<1, 4>>, <<2, 4>>, <<3, 4>>}

\* positions handed to interpolate_draw, in pixels
DrawCoords == {0, 3, 8}

\* Game.interpolate_draw.  The result is the quotient <<num, den>>; with
\* alpha a multiple of 1/4 and whole positions the float products and
\* sum are exact.
interpolate_draw(current, last, boss) ==
    IF ~paused
    THEN IF boss
         THEN <<0, 1>>
         ELSE <<current * alpha[1] + last * (alpha[2] - alpha[1]), alpha[2]>>
    ELSE <<current, 1>>

\* a call of interpolate_draw with three arguments
Game_interpolate_draw ==
    /\ draw_pos = NoDraw
    /\ draw_pos' =
           [state |-> "returned",
            value |-> interpolate_draw(draw_args.current, draw_args.last,
                                       draw_args.boss_level)]
    /\ UNCHANGED <<levelVars, padVars, fade, armVars,
                   draw_args, scrollVars, stackVars, gameVars, histVars,
                   spawnVars, collideVars>>

\* InitGame with Game.paused and Game.alpha as the loop may have left them
InitDrawCall ==
    /\ states = <<>>
    /\ current_state = 0
    /\ paused \in BOOLEAN
    /\ accumulator = FZero
    /\ alpha \in Alphas
    /\ pc = "init"
    /\ transitioning = [s \in StateIds |-> FALSE]
    /\ is_exiting = [s \in StateIds |-> FALSE]
    /\ done_exiting = [s \in StateIds |-> FALSE]
    /\ frames = 0
    /\ sum_ms = 0
    /\ over_clamp = FALSE
    /\ updates = 0
    /\ iter_updates = 0
    /\ acc_at_input = FZero
    /\ trans_at_input = FALSE
    /\ input_called = FALSE
    /\ update_targets = {}
    /\ last_call = NoCall
    /\ drawn = <<>>
    /\ InitSprites
    /\ InitGroups
    /\ InitViewport
    /\ InitLevel
    /\ InitPad
    /\ InitFade
    /\ InitCalls
    /\ InitArms
    /\ draw_args \in [current : DrawCoords, last : DrawCoords,
                      boss_level : BOOLEAN]
    /\ draw_pos = NoDraw

NextDraw ==
    \/ Game_interpolate_draw
    \/ Viewport_draw

SpecDraw == InitDrawCall /\ [][NextDraw]_vars

\* the quotient q lies between the whole numbers a and b
Between(q, a, b) ==
    \/ a * q[2] <= q[1] /\ q[1] <= b * q[2]
    \/ b * q[2] <= q[1] /\ q[1] <= a * q[2]

\* C23: interpolate_draw(current, last, boss_level) returns 0 whenever
\* boss_level is true; otherwise, when not paused, it returns
\* current*alpha + last*(1-alpha), which lies between last and current;
\* when paused with boss_level false it returns current unmodified.
C23_DrawPositionBySuppression ==
    draw_pos.state = "returned" =>
        LET a == draw_args
            v == draw_pos.value
        IN  /\ a.boss_level => v[1] = 0
            /\ ~a.boss_level /\ ~paused =>
                   /\ v[1] * alpha[2] =
                          (a.current * alpha[1]
                           + a.last * (alpha[2] - alpha[1])) * v[2]
                   /\ Between(v, a.last, a.current)
            /\ ~a.boss_level /\ paused => v = <<a.current, 1>>

\* ------------------------------------------------------------------------
\* The state stack driven call by call (Game.push_state, pop_state,
\* change_state and the State methods), with the calls each one makes
\* ------------------------------------------------------------------------
MaxDepth == 3   \* deepest stack of the call-by-call runs

\* write back a world and what the operation did; an IndexError ends
\* the run
Done(w, name, s, t) ==
    /\ Commit([w EXCEPT
                  !.transitioning = Collect(@, Range(w.states)),
                  !.is_exiting = Collect(@, Range(w.states)),
                  !.done_exiting = Collect(@, Range(w.states))])
    /\ calls' = w.calls
    /\ below' = states
    /\ last_op' = [name |-> name, s |-> s, t |-> t]
    /\ pc' = IF w.error THEN "crashed" ELSE pc
    /\ UNCHANGED <<levelVars, padVars, fade, armVars,
                   current_state, accumulator, alpha, histVars, spawnVars,
                   collideVars, scrollVars, drawVars>>

\* game.push_state(State(game), transition)
Call_push_state ==
    /\ pc = "init"
    /\ Len(states) < MaxDepth
    /\ \E s \in Fresh(World), t \in BOOLEAN :
           Done(push_state(NewState(World, s), s, t), "push_state", s, t)

\* game.pop_state(transition)
Call_pop_state ==
    /\ pc = "init"
    /\ \E t \in BOOLEAN : Done(pop_state(World, t), "pop_state", 0, t)

\* game.change_state(State(game), transition)
Call_change_state ==
    /\ pc = "init"
    /\ \E s \in Fresh(World), t \in BOOLEAN :
           Done(change_state(NewState(World, s), s, t), "change_state", s, t)

\* state.transition_off(transition) on the current state
Call_transition_off ==
    /\ pc = "init"
    /\ states # <<>>
    /\ \E s \in {Top(states)} :
           Done(transition_off(World, s), "transition_off", s, TRUE)

\* state.update() on the current state; t is what its transition reports
Call_update ==
    /\ pc = "init"
    /\ states # <<>>
    /\ \E s \in {Top(states)}, t \in BOOLEAN :
           Done(State_update(World, s, t), "update", s, t)

\* state.activate(transition) on the current state
Call_activate ==
    /\ pc = "init"
    /\ states # <<>>
    /\ \E s \in {Top(states)}, t \in BOOLEAN :
           Done(activate(World, s, t), "activate", s, t)

\* state.reactivate(transition) on the current state
Call_reactivate ==
    /\ pc = "init"
    /\ states # <<>>
    /\ \E s \in {Top(states)}, t \in BOOLEAN :
           Done(reactivate(World, s, t), "reactivate", s, t)

NextStack ==
    \/ Call_push_state
    \/ Call_pop_state
    \/ Call_change_state
    \/ Call_transition_off
    \/ Call_update
    \/ Call_activate
    \/ Call_reactivate

SpecStack == Init /\ [][NextStack]_vars

\* C24: push_state(s, t) appends s on top and calls s.activate(t), so
\* s.transitioning is true iff t was given; pop_state(t) on a stack of at
\* least two states removes the top state alone, keeps the states below
\* in order, and calls reactivate(t) once, on the new top, and on no other
\* state.
C24_StackIsLifo ==
    /\ last_op.name = "push_state" =>
           /\ states = Append(below, last_op.s)
           /\ calls = <<<<"activate", last_op.s, last_op.t>>>>
           /\ transitioning[last_op.s] = last_op.t
    /\ last_op.name = "pop_state" /\ Len(below) >= 2 =>
           /\ states = SubSeq(below, 1, Len(below) - 1)
           /\ calls = <<<<"reactivate", Top(states), last_op.t>>>>

\* a pop has taken the top off a stack of three states
C24_Witness ==
    /\ last_op.name = "pop_state"
    /\ Len(below) = 3
    /\ Len(states) = 2

\* the unload_content calls of change_state on the stack st: top first
Unloads(st) ==
    [i \in 1 .. Len(st) |-> <<"unload_content", st[Len(st) + 1 - i], FALSE>>]

C26_DoneExitingOnlyAfterTransition ==
    [][\A s \in StateIds :
          /\ ~done_exiting[s] /\ done_exiting'[s] =>
                 /\ last_op'.name = "update" /\ last_op'.s = s
                 /\ is_exiting[s]
                 /\ ~transitioning'[s]
          /\ (/\ last_op'.name = "update" /\ last_op'.s = s
              /\ is_exiting[s] /\ ~transitioning'[s]) => done_exiting'[s]
          /\ done_exiting'[s] => is_exiting'[s]
          /\ (/\ done_exiting[s]
              /\ s \in Range(states) /\ s \in Range(states')) =>
                 done_exiting'[s]]_vars

\* a state that is done exiting has been reactivated
C26_Witness ==
    /\ last_op.name = "reactivate"
    /\ done_exiting[last_op.s]

\* ------------------------------------------------------------------------
\* The weapons (weapons.py) and the player's use of them (player.py)
\* ------------------------------------------------------------------------
MaxFireCalls == 4   \* fire() calls on the lone weapon
MaxInputs == 4      \* Player.handle_input() calls explored

\* the cooldown counts as elapsed at the very millisecond it ends
Ready_inclusive(w, t) == t - w.last_shot >= w.speed

\* `if current_time - self.last_shot > self.speed`
Ready(w, t) == t - w.last_shot > w.speed

\* weapon.fire(current_time, player_rect): the weapon afterwards and the
\* list returned, one bullet for each angle
fire(w, t) ==
    IF Ready(w, t)
    THEN [weapon |-> [w EXCEPT !.last_shot = t, !.emits = @ + 1],
          shots |-> w.angles]
    ELSE [weapon |-> w, shots |-> <<>>]

\* a power_up that never stops
AboveFloor_always(w) == TRUE

\* `if self.speed > self.max_speed`
AboveFloor(w) == w.speed > w.max_speed

\* weapon.power_up()
power_up(w) ==
    IF AboveFloor(w) THEN [w EXCEPT !.speed = @ - w.speed_increment] ELSE w

\* clock readings for a fire() call on w: now and just after, and the
\* millisecond the cooldown ends with the ones around it
FireTimes(w) ==
    {t \in {now, now + 1, w.last_shot + w.speed - 1, w.last_shot + w.speed,
            w.last_shot + w.speed + 1} : t >= now}

\* a fire() call on a weapon
Call_fire ==
    /\ fire_calls < MaxFireCalls
    /\ fire_calls' = fire_calls + 1
    /\ \E i \in 1 .. Len(weapons) : \E t \in FireTimes(weapons[i]) :
       LET r == fire(weapons[i], t)
       IN  /\ weapons' = [weapons EXCEPT ![i] = r.weapon]
           /\ now' = t
           /\ fire_log' = [called |-> TRUE, w |-> i, at |-> t,
                           before |-> weapons[i], after |-> r.weapon,
                           shots |-> r.shots]
    /\ UNCHANGED <<levelVars, padVars, fade,
                   current_weapon_index, current_weapon, inputs, power_log,
                   input_log, scrollVars, drawVars, stackVars, gameVars,
                   histVars, spawnVars, collideVars>>

\* a power_up() call on a weapon
Call_power_up ==
    /\ \E i \in 1 .. Len(weapons) :
       /\ weapons' = [weapons EXCEPT ![i] = power_up(weapons[i])]
       /\ power_log' = [called |-> TRUE, w |-> i, before |-> weapons[i],
                        after |-> power_up(weapons[i])]
    /\ UNCHANGED <<levelVars, padVars, fade,
                   current_weapon_index, current_weapon, now, fire_calls,
                   inputs, fire_log, input_log, scrollVars, drawVars,
                   stackVars, gameVars, histVars, spawnVars, collideVars>>

\* one weapon of any class, on its own
InitWeapon ==
    /\ InitGame
    /\ InitSprites
    /\ InitGroups
    /\ InitViewport
    /\ InitDraw
    /\ InitLevel
    /\ InitPad
    /\ InitFade
    /\ InitCalls
    /\ InitLogs
    /\ \E kind \in WeaponKinds : weapons = <<NewWeapon(kind)>>
    /\ current_weapon_index = 0
    /\ current_weapon = 1

NextWeapon ==
    \/ Call_fire
    \/ Call_power_up

SpecWeapon == InitWeapon /\ [][NextWeapon]_vars

\* C27: after a fire() call that emitted bullets, a call less than one
\* cooldown later returns an empty list and changes nothing; a call more
\* than one cooldown after last_shot returns len(angles) bullets and sets
\* last_shot to its time; so two emitting calls on a weapon are more than
\* one cooldown apart.
C27_FireIsRateLimited ==
    fire_log.called =>
        LET b == fire_log.before
            a == fire_log.after
            gap == fire_log.at - b.last_shot
        IN  /\ b.emits >= 1 /\ gap < b.speed =>
                   fire_log.shots = <<>> /\ a = b
            /\ gap > b.speed =>
                   /\ Len(fire_log.shots) = Len(b.angles)
                   /\ a.last_shot = fire_log.at
            /\ b.emits >= 1 /\ fire_log.shots # <<>> => gap > b.speed

\* a weapon has emitted for the second time
C27_Witness ==
    /\ fire_log.called
    /\ fire_log.before.emits >= 1
    /\ fire_log.shots # <<>>

\* C28: for each of the four weapons, after any number of power_up()
\* calls speed is not below max_speed; a call made above the floor takes
\* speed_increment off, a call made at the floor changes nothing.
C28_PowerUpStopsAtFloor ==
    /\ \A i \in 1 .. Len(weapons) : weapons[i].speed >= weapons[i].max_speed
    /\ power_log.called =>
           LET b == power_log.before
               a == power_log.after
           IN  /\ b.speed > b.max_speed =>
                      a.speed = b.speed - b.speed_increment
               /\ b.speed = b.max_speed => a = b

\* power_up() was called on a weapon already at its floor
C28_Witness ==
    /\ power_log.called
    /\ power_log.before.speed = power_log.before.max_speed

\* time between two handle_input() calls, in milliseconds: a frame, or
\* long enough for a cooldown
Gaps == {17, 400, 1300}

\* `self.current_weapon_index += 1`, back to 0 past the last weapon
NextIndex(i) == IF i + 1 > Len(weapons) - 1 THEN 0 ELSE i + 1

\* Player.handle_input(game, current_time): input is ignored while
\* respawning; a 'Y' press moves current_weapon_index; with 'B' held
\* self.current_weapon fires
Player_handle_input ==
    /\ inputs < MaxInputs
    /\ inputs' = inputs + 1
    /\ \E Y \in BOOLEAN, B \in BOOLEAN, g \in Gaps :
       LET handled == ~player.respawning
           idx == IF handled /\ Y THEN NextIndex(current_weapon_index)
                  ELSE current_weapon_index
           shoot == handled /\ B
           r == IF shoot THEN fire(weapons[current_weapon], now + g)
                ELSE [weapon |-> weapons[current_weapon], shots |-> <<>>]
       IN  /\ now' = now + g
           /\ current_weapon_index' = idx
           /\ weapons' = [weapons EXCEPT ![current_weapon] = r.weapon]
           /\ input_log' =
                  [called |-> TRUE, Y |-> Y, B |-> B, handled |-> handled,
                   index_before |-> current_weapon_index,
                   index_after |-> idx,
                   fired |-> IF shoot THEN current_weapon ELSE 0,
                   before |-> weapons, after |-> weapons',
                   shots |-> r.shots]
    /\ UNCHANGED <<levelVars, padVars, fade, current_weapon, fire_calls,
                   fire_log, power_log,
                   scrollVars, drawVars, stackVars, gameVars, histVars,
                   spawnVars, collideVars>>

RespawnStep == 3   \* speed * TIMESTEP = 90 * (1 / 60.0) = 1.5, in halves

\* Player.update(current_time): current_weapon follows the index; a
\* respawning ship moves back by speed * TIMESTEP and is released once
\* dx >= 16; then protection ends once more than protect_duration has
\* passed since explode_time
Player_update ==
    /\ current_weapon' = current_weapon_index + 1
    /\ LET dx == IF player.respawning THEN player.dx + RespawnStep
                 ELSE player.dx
           back == player.respawning /\ dx >= RespawnEnd
           expired == /\ player.protected
                      /\ now - player.explode_time > player.protect_duration
       IN  player' = [player EXCEPT
                         !.dx = dx,
                         !.respawning = @ /\ ~back,
                         !.protected = @ /\ ~expired]
    /\ UNCHANGED <<levelVars, padVars, fade,
                   weapons, current_weapon_index, now, fire_calls, inputs,
                   fire_log, power_log, input_log, scrollVars, drawVars,
                   stackVars, gameVars, histVars, spawnVars, foeVars,
                   boss_level, bullets, player_shots, ghost, explosions,
                   enemy_shots, powerups, power_ups, owner_pc, player_die,
                   sweeps, ev, pre, phase_log>>

\* a new Player, or one that has just exploded with lives left
InitPlayer ==
    /\ InitGame
    /\ InitSprites
    /\ InitViewport
    /\ InitDraw
    /\ InitLevel
    /\ InitPad
    /\ InitFade
    /\ InitCalls
    /\ InitArms
    /\ boss_level = FALSE
    /\ hitbox = <<>>
    /\ hits = <<>>
    /\ bullets = <<>>
    /\ player_shots = {}
    /\ \E hit \in BOOLEAN : player = NewPlayer(StartLives, hit, hit)
    /\ ghost = FALSE
    /\ explosions = <<>>
    /\ enemy_shots = <<>>
    /\ powerups = <<>>
    /\ tally = <<>>
    /\ power_ups = 0
    /\ owner_pc = "idle"
    /\ player_die = FALSE
    /\ sweeps = 0
    /\ ev = <<>>
    /\ pre = Snapshot
    /\ phase_log = <<>>

NextPlayer ==
    \/ Player_handle_input
    \/ Player_update

SpecPlayer == InitPlayer /\ [][NextPlayer]_vars

\* C29: once a handle_input() call has handled the switch press, any
\* fire, the one of that same call included, is asked of the weapon the
\* index now selects; the index steps cyclically through 0..3; and no
\* weapon but the one that fires has its last_shot or speed changed.
C29_SwitchTakesEffectAtOnce ==
    input_log.called /\ input_log.handled =>
        /\ input_log.B => input_log.fired = input_log.index_after + 1
        /\ input_log.index_after \in 0 .. 3
        /\ input_log.index_after =
               IF input_log.Y THEN (input_log.index_before + 1) % 4
               ELSE input_log.index_before
        /\ \A w \in 1 .. Len(weapons) :
               w # input_log.fired =>
                   input_log.after[w] = input_log.before[w]

\* ------------------------------------------------------------------------
\* SpriteManager.load_level: the level file read into the enemy queue
\* ------------------------------------------------------------------------
\* the enemy types create_enemy() knows
EnemyTypes ==
    {"enemy_01", "enemy_02", "enemy_03", "enemy_04", "enemy_05", "enemy_06",
     "enemy_07", "enemy_08", "enemy_09", "enemy_10", "enemy_11", "enemy_12",
     "enemy_13", "enemy_14", "enemy_15", "boss"}

\* the words int() accepts, among those the level files explored hold
Numerals == {"30", "50", "100", "322", "325"}

\* int(word) of a numeral
IntOf(word) ==
    CASE word = "30" -> 30
      [] word = "50" -> 50
      [] word = "100" -> 100
      [] word = "322" -> 322
      [] word = "325" -> 325

\* one record on one line
LevelOneRecord ==
    <<<<"type", "enemy_01", "x", "50", "y", "30", "has_powerup", "True",
        "end_enemy">>>>

\* one record over two lines
LevelTwoLines ==
    <<<<"type", "enemy_02", "x", "322">>,
      <<"y", "30", "has_powerup", "False", "end_enemy">>>>

\* two records, a line each
LevelTwoRecords ==
    <<<<"type", "enemy_03", "x", "325", "y", "100", "has_powerup", "False",
        "end_enemy">>,
      <<"type", "enemy_01", "x", "50", "y", "30", "has_powerup", "True",
        "end_enemy">>>>

\* an enemy and the boss
LevelBoss ==
    <<<<"type", "enemy_01", "x", "322", "y", "30", "has_powerup", "True",
        "end_enemy">>,
      <<"type", "boss", "x", "325", "y", "100", "has_powerup", "False",
        "end_enemy">>>>

\* the two records of LevelTwoRecords on one line
LevelOneLine ==
    <<<<"type", "enemy_03", "x", "325", "y", "100", "has_powerup", "False",
        "end_enemy", "type", "enemy_01", "x", "50", "y", "30",
        "has_powerup", "True", "end_enemy">>>>

\* three records, the second without its y
LevelMissingY ==
    <<<<"type", "enemy_01", "x", "50", "y", "30", "has_powerup", "True",
        "end_enemy">>,
      <<"type", "enemy_02", "x", "322", "has_powerup", "False",
        "end_enemy">>,
      <<"type", "enemy_03", "x", "325", "y", "100", "has_powerup", "False",
        "end_enemy">>>>

\* two records, the first without its x
LevelMissingX ==
    <<<<"type", "enemy_02", "y", "30", "has_powerup", "False",
        "end_enemy">>,
      <<"type", "enemy_03", "x", "325", "y", "100", "has_powerup", "False",
        "end_enemy">>>>

\* three records on screen from the start
LevelTogether ==
    <<<<"type", "enemy_01", "x", "50", "y", "30", "has_powerup", "True",
        "end_enemy">>,
      <<"type", "enemy_02", "x", "30", "y", "100", "has_powerup", "False",
        "end_enemy">>,
      <<"type", "enemy_03", "x", "100", "y", "50", "has_powerup", "False",
        "end_enemy">>>>

\* files whose every record has its four keys
WellFormed ==
    {LevelOneRecord, LevelTwoLines, LevelTwoRecords, LevelBoss, LevelOneLine,
     LevelTogether}

\* the level files explored
Levels == WellFormed \cup {LevelMissingY, LevelMissingX}

\* list.index(x) where x may be absent: 0 stands for the ValueError
RECURSIVE FindFrom(_, _, _)
FindFrom(q, x, i) ==
    IF i > Len(q) THEN 0
    ELSE IF q[i] = x THEN i
    ELSE FindFrom(q, x, i + 1)

Find(q, x) == FindFrom(q, x, 1)

\* the locals of load_level before the first line: enemy_data empty,
\* enemy_type, x, y and has_powerup not yet bound
NewParse ==
    [data |-> <<>>, bound |-> {}, enemy_type |-> "", x |-> 0, y |-> 0,
     has_powerup |-> FALSE, error |-> "none", made |-> <<>>]

Raise(p, exception) == [p EXCEPT !.error = exception]

\* the data is read at the key itself
NextOf_here(data, element) == Find(data, element)

\* `next_index = enemy_data.index(element) + 1`, as a position from 1
NextOf(data, element) == Find(data, element) + 1

\* self.create_enemy(game, enemy_type, x, y, has_powerup) and
\* `enemy_data = []`: unbound locals raise, and so does a type with no
\* image
EndEnemy(p) ==
    IF p.bound # {"enemy_type", "x", "y", "has_powerup"}
    THEN Raise(p, "UnboundLocalError")
    ELSE IF p.enemy_type \notin EnemyTypes
    THEN Raise(p, "KeyError")
    ELSE [p EXCEPT
             !.made = Append(@, [type |-> p.enemy_type, dx |-> p.x,
                                 y |-> p.y, has_powerup |-> p.has_powerup,
                                 boss |-> p.enemy_type = "boss"]),
             !.data = <<>>]

\* the body of `for element in enemy_data:` for one element
Element(p, element) ==
    IF Find(p.data, element) = 0 THEN Raise(p, "ValueError")
    ELSE IF element \notin {"type", "x", "y", "has_powerup", "end_enemy"}
    THEN p
    ELSE IF element = "end_enemy" THEN EndEnemy(p)
    ELSE LET n == NextOf(p.data, element)
         IN  IF n > Len(p.data) THEN Raise(p, "IndexError")
             ELSE IF element = "type"
             THEN [p EXCEPT !.enemy_type = p.data[n],
                            !.bound = @ \cup {"enemy_type"}]
             ELSE IF element = "has_powerup"
             THEN [p EXCEPT !.has_powerup = (p.data[n] = "True"),
                            !.bound = @ \cup {"has_powerup"}]
             ELSE IF p.data[n] \notin Numerals THEN Raise(p, "ValueError")
             ELSE IF element = "x"
             THEN [p EXCEPT !.x = IntOf(p.data[n]), !.bound = @ \cup {"x"}]
             ELSE [p EXCEPT !.y = IntOf(p.data[n]), !.bound = @ \cup {"y"}]

\* `for element in enemy_data:` over the list object the loop began
\* with, while enemy_data may be rebound to a new list inside
RECURSIVE Elements(_, _, _)
Elements(p, list, i) ==
    IF p.error # "none" \/ i > Len(list) THEN p
    ELSE Elements(Element(p, list[i]), list, i + 1)

\* `for line in level:` the words of the line are appended, then all of
\* enemy_data is read again
RECURSIVE Lines(_, _, _)
Lines(p, text, k) ==
    IF p.error # "none" \/ k > Len(text) THEN p
    ELSE LET p1 == [p EXCEPT !.data = @ \o text[k]]
         IN  Lines(Elements(p1, p1.data, 1), text, k + 1)

\* SpriteManager.load_level: every create_enemy() call made before the
\* end, or before an exception, has queued its enemy
load_level ==
    /\ load_state = "no"
    /\ \E p \in {Lines(NewParse, level_text, 1)} :
       LET n == Len(p.made)
           m == Len(records)
       IN  /\ load_state' = IF p.error = "none" THEN "loaded" ELSE p.error
           /\ records' = records \o p.made
           /\ enemy_queue' = enemy_queue \o [i \in 1 .. n |-> m + i]
           /\ spawn_count' = spawn_count \o [i \in 1 .. n |-> 0]
           /\ spawn_tick' = spawn_tick \o [i \in 1 .. n |-> 0]
           /\ first_trigger' = first_trigger \o [i \in 1 .. n |-> 0]
           /\ hitbox' = hitbox \o [i \in 1 .. n |-> NewBoxes(p.made[i])]
           /\ hits' = hits \o [i \in 1 .. n |-> 0]
           /\ tally' = tally \o [i \in 1 .. n |-> NoTally(0)]
    /\ UNCHANGED <<level_text, padVars, fade, enemy_group, level_pos,
                   scroll_ticks, tick_no,
                   spawn_order, scrollVars, drawVars, stackVars, armVars,
                   gameVars, histVars, shotVars, phase_log>>

\* a SpriteManager and a level file to load
InitFile ==
    /\ InitGame
    /\ InitSprites
    /\ InitGroups
    /\ InitViewport
    /\ InitDraw
    /\ InitCalls
    /\ InitArms
    /\ InitPad
    /\ InitFade
    /\ level_text \in Levels
    /\ load_state = "no"

NextLevel ==
    \/ load_level
    \/ SpawnScroll
    \/ SpriteManager_update

SpecLevel == InitFile /\ [][NextLevel]_vars

\* C30: loading the level 'type enemy_01 x 50 y 30 has_powerup True
\* end_enemy' appends exactly one record to enemy_queue, with type
\* enemy_01, x = 50, y = 30 and has_powerup = True, and adds nothing to the
\* enemy group; the enemy joins the group only in a later update() call
\* that meets its trigger condition.
C30_OneRecordQueuedNotSpawned ==
    level_text = LevelOneRecord /\ load_state # "no" =>
        /\ load_state = "loaded"
        /\ records = <<[type |-> "enemy_01", dx |-> 50, y |-> 30,
                        has_powerup |-> TRUE, boss |-> FALSE]>>
        /\ spawn_tick[1] = 0 => enemy_queue = <<1>> /\ enemy_group = {}
        /\ 1 \in enemy_group =>
               /\ spawn_tick[1] >= 1
               /\ first_trigger[1] = spawn_tick[1]

\* the queued enemy of the one-record level has joined the enemy group
C30_Witness ==
    /\ level_text = LevelOneRecord
    /\ load_state = "loaded"
    /\ 1 \in enemy_group

\* the enemy a well-made record describes
Described(type, x, y, powerup) ==
    [type |-> type, dx |-> x, y |-> y, has_powerup |-> powerup,
     boss |-> type = "boss"]

\* C31: a record that lacks one of type, x, y, has_powerup before its
\* end_enemy is dropped silently: no enemy is created or queued for it,
\* no error is raised, and the records before and after it are queued
\* with their own values.
C31_IncompleteRecordDropped ==
    /\ level_text = LevelMissingY /\ load_state # "no" =>
           /\ load_state = "loaded"
           /\ records = <<Described("enemy_01", 50, 30, TRUE),
                          Described("enemy_03", 325, 100, FALSE)>>
    /\ level_text = LevelMissingX /\ load_state # "no" =>
           /\ load_state = "loaded"
           /\ records = <<Described("enemy_03", 325, 100, FALSE)>>

\* all the words of a file, in order
RECURSIVE Words(_, _)
Words(text, k) ==
    IF k > Len(text) THEN <<>> ELSE text[k] \o Words(text, k + 1)

\* the records a well-formed word stream describes, nine words each
Wanted(ws) ==
    [i \in 1 .. (Len(ws) \div 9) |->
        Described(ws[9 * i - 7], IntOf(ws[9 * i - 5]), IntOf(ws[9 * i - 3]),
                  ws[9 * i - 1] = "True")]

\* C32: for well-formed input the records queued are as many as the
\* end_enemy tokens, in file order and each with its own values, however
\* the words are split into lines.
C32_RecordsFollowTokenStream ==
    level_text \in WellFormed /\ load_state # "no" =>
        /\ load_state = "loaded"
        /\ Len(records) =
               Cardinality({i \in 1 .. Len(Words(level_text, 1)) :
                               Words(level_text, 1)[i] = "end_enemy"})
        /\ records = Wanted(Words(level_text, 1))

\* ------------------------------------------------------------------------
\* InputManager: bindings, rebinding and the button queries
\* ------------------------------------------------------------------------
\* the physical values offered to redefine_button
PadValues == {"K_z", "left", "(1, 1)"}

\* the logical buttons rebound
RebindButtons == {"B", "UP"}

\* the buttons asked of is_pressed and is_held; "L" is a key of neither
\* default_bound nor user_bound
AskedButtons == {"B", "UP", "L"}

\* the events of pygame.event.get() explored, one a call at most
Events ==
    {<<"none", "">>, <<"KEYDOWN", "K_z">>, <<"KEYUP", "K_z">>,
     <<"JOYBUTTONDOWN", "0">>, <<"JOYBUTTONUP", "0">>,
     <<"JOYHATMOTION", "left">>}

\* the other variables of the model
padRest ==
    <<gameVars, histVars, spawnVars, collideVars, scrollVars, drawVars,
      stackVars, armVars, levelVars, fade>>

Replied(op, button, value, out) ==
    reply' = [op |-> op, button |-> button, value |-> value, out |-> out,
              taken |-> value \in Range(set), before |-> user_bound]

\* a test that finds nothing set
Taken_never(list, v) == FALSE

\* `new_value not in self.set` is false
Taken(list, v) == v \in Range(list)

\* InputManager.redefine_button(button, new_value)
redefine_button ==
    /\ \E button \in RebindButtons, v \in PadValues :
           IF Taken(set, v)
           THEN /\ Replied("redefine_button", button, v, "False")
                /\ UNCHANGED <<user_bound, set>>
           ELSE /\ Replied("redefine_button", button, v, "True")
                /\ user_bound' = [user_bound EXCEPT ![button] = Append(@, v)]
                /\ set' = Append(set, v)
    /\ UNCHANGED <<config_mode, redefined, pressed, held, padRest>>

\* InputManager.toggle_config_mode()
toggle_config_mode ==
    /\ Replied("toggle_config_mode", "none", "none", "None")
    /\ IF config_mode = FALSE
       THEN /\ config_mode' = TRUE
            /\ set' = Diagonals
            /\ user_bound' = Unbound
       ELSE /\ config_mode' = FALSE
            /\ UNCHANGED <<set, user_bound>>
    /\ UNCHANGED <<redefined, pressed, held, padRest>>

\* InputManager.toggle_default() and toggle_user()
toggle_default ==
    /\ Replied("toggle_default", "none", "none", "None")
    /\ redefined' = FALSE
    /\ UNCHANGED <<config_mode, set, user_bound, pressed, held, padRest>>

toggle_user ==
    /\ Replied("toggle_user", "none", "none", "None")
    /\ redefined' = TRUE
    /\ UNCHANGED <<config_mode, set, user_bound, pressed, held, padRest>>

\* list.remove(x): the first x goes
Remove(list, x) ==
    LET i == Find(list, x)
    IN  IF i = 0 THEN list
        ELSE SubSeq(list, 1, i - 1) \o SubSeq(list, i + 1, Len(list))

\* one event of the loop of process_input, from the emptied pressed
Taken_in(e) ==
    CASE e[1] = "KEYDOWN" ->
             [pressed |-> [NoneDown EXCEPT !.keys = <<e[2]>>],
              held |-> [held EXCEPT !.keys = Append(@, e[2])]]
      [] e[1] = "KEYUP" ->
             [pressed |-> NoneDown,
              held |-> [held EXCEPT !.keys = Remove(@, e[2])]]
      [] e[1] = "JOYBUTTONDOWN" ->
             [pressed |-> [NoneDown EXCEPT !.buttons = <<e[2]>>],
              held |-> [held EXCEPT !.buttons = Append(@, e[2])]]
      [] e[1] = "JOYBUTTONUP" ->
             [pressed |-> NoneDown,
              held |-> [held EXCEPT !.buttons = Remove(@, e[2])]]
      [] e[1] = "JOYHATMOTION" ->
             LET dpad_state == IF e[2] = "" THEN <<>> ELSE <<e[2]>>
             IN  [pressed |-> [NoneDown EXCEPT !.dpad = dpad_state],
                  held |-> [held EXCEPT !.dpad = dpad_state]]
      [] OTHER -> [pressed |-> NoneDown, held |-> held]

\* InputManager.process_input(): nothing in config mode; a key or button
\* goes down only when it is up
process_input ==
    /\ Replied("process_input", "none", "none", "None")
    /\ IF config_mode
       THEN UNCHANGED <<pressed, held>>
       ELSE \E e \in Events :
                /\ e[1] = "KEYDOWN" => e[2] \notin Range(held.keys)
                /\ e[1] = "JOYBUTTONDOWN" => e[2] \notin Range(held.buttons)
                /\ pressed' = Taken_in(e).pressed
                /\ held' = Taken_in(e).held
    /\ UNCHANGED <<config_mode, set, user_bound, redefined, padRest>>

\* the local `values` after the lookup: assigned only when the button is
\* a key of the table in use
Lookup(button) ==
    LET table == IF redefined THEN user_bound ELSE default_bound
    IN  IF button \in DOMAIN table
        THEN [bound |-> TRUE, values |-> table[button]]
        ELSE [bound |-> FALSE, values |-> <<>>]

\* the two loops over the device lists: the first value met is tested
\* against `values`
Scan(down, found) ==
    LET all == down.keys \o down.buttons \o down.dpad \o down.stick
    IN  IF all = <<>> THEN "False"
        ELSE IF ~found.bound THEN "UnboundLocalError"
        ELSE IF \E i \in 1 .. Len(all) : all[i] \in Range(found.values)
        THEN "True"
        ELSE "False"

\* InputManager.is_pressed(button)
is_pressed ==
    /\ \E button \in AskedButtons :
           Replied("is_pressed", button, "none", Scan(pressed, Lookup(button)))
    /\ UNCHANGED <<config_mode, set, user_bound, redefined, pressed, held,
                   padRest>>

\* InputManager.is_held(button)
is_held ==
    /\ \E button \in AskedButtons :
           Replied("is_held", button, "none", Scan(held, Lookup(button)))
    /\ UNCHANGED <<config_mode, set, user_bound, redefined, pressed, held,
                   padRest>>

NextPad ==
    \/ redefine_button
    \/ toggle_config_mode
    \/ toggle_default
    \/ toggle_user
    \/ process_input
    \/ is_pressed
    \/ is_held

SpecPad == Init /\ [][NextPad]_vars

\* C33: redefine_button(button, v) with v already bound since config mode
\* was entered, or one of the four diagonal hat tuples, returns False and
\* leaves user_bound as it was; so no physical value is ever bound twice
\* in user_bound, and no diagonal is bound at all.
C33_RebindingRefusesTakenValue ==
    /\ reply.op = "redefine_button" /\ reply.taken =>
           reply.out = "False" /\ user_bound = reply.before
    /\ \A b1 \in Buttons, b2 \in Buttons :
           \A i \in 1 .. Len(user_bound[b1]), j \in 1 .. Len(user_bound[b2]) :
               user_bound[b1][i] = user_bound[b2][j] => b1 = b2 /\ i = j
    /\ \A b \in Buttons : Range(user_bound[b]) \cap Range(Diagonals) = {}

\* a value bound in config mode is offered again and refused
C33_Witness ==
    /\ config_mode
    /\ reply.op = "redefine_button"
    /\ reply.taken
    /\ reply.out = "False"
    /\ reply.value \notin Range(Diagonals)
    /\ \E b \in Buttons : reply.value \in Range(user_bound[b])
    /\ reply.value \notin Range(user_bound[reply.button])

\* C38: is_pressed(b) and is_held(b) return False, and raise nothing, for
\* a b that is not a bound logical button, with the default and with the
\* user's bindings.
C38_UnknownButtonIsFalse ==
    reply.op \in {"is_pressed", "is_held"} /\ reply.button \notin Buttons =>
        reply.out = "False"

\* ------------------------------------------------------------------------
\* The level played: each tick of the play state advances the viewport and
\* then updates the sprites
\* ------------------------------------------------------------------------
ShortScroll == 3   \* a background 3 pixels wider than the viewport

\* a level file to load, in front of a short or a long background
InitRelease ==
    /\ InitGame
    /\ InitSprites
    /\ InitGroups
    /\ coordinate = FZero
    /\ last_coordinate = FZero
    /\ maxScroll \in {ShortScroll, LongestScroll}
    /\ InitDraw
    /\ InitCalls
    /\ InitArms
    /\ InitPad
    /\ InitFade
    /\ level_text \in Levels
    /\ load_state = "no"

\* the first half of a tick: viewport.update()
TickScroll ==
    /\ load_state = "loaded"
    /\ scroll_ticks = tick_no
    /\ SpawnScroll

\* the second half: sprite_manager.update(...)
TickUpdate ==
    /\ load_state = "loaded"
    /\ tick_no < scroll_ticks
    /\ SpriteManager_update

NextRelease ==
    \/ load_level
    \/ TickScroll
    \/ TickUpdate

\* once the level is loaded the ticks keep coming
SpecRelease ==
    /\ InitRelease
    /\ [][NextRelease]_vars
    /\ WF_vars(TickScroll)
    /\ WF_vars(TickUpdate)

\* the first record of the queue that the spawn loop would take
FirstDue ==
    CHOOSE i \in 1 .. Len(enemy_queue) :
        /\ ShouldSpawn(enemy_queue[i])
        /\ \A j \in 1 .. i - 1 : ~ShouldSpawn(enemy_queue[j])

\* a non-boss record waits in the queue of the loaded level
Waiting(e) ==
    IF load_state = "loaded" /\ e \in Range(enemy_queue)
    THEN ~IsBoss(e)
    ELSE FALSE

\* the record has left the queue through spawn()
Released(e) ==
    IF e \in DOMAIN spawn_count
    THEN spawn_count[e] > 0 /\ e \notin Range(enemy_queue)
    ELSE FALSE

\* the update() at hand takes the first due record out of the queue and
\* calls its spawn()
ReleasesFirstDue ==
    IF /\ tick_no' # tick_no
       /\ \E i \in 1 .. Len(enemy_queue) : ShouldSpawn(enemy_queue[i])
    THEN /\ enemy_queue[FirstDue] \notin Range(enemy_queue')
         /\ spawn_count'[enemy_queue[FirstDue]] =
                spawn_count[enemy_queue[FirstDue]] + 1
    ELSE TRUE

\* C34: under repeated ticks every queued non-boss record is eventually
\* spawned: level_pos never decreases, not even when coordinate wraps to
\* 0, and each update() releases at least the first triggered record of
\* the queue.
C34_QueuedRecordsEventuallySpawn ==
    /\ [][level_pos' >= level_pos]_vars
    /\ [][ReleasesFirstDue]_vars
    /\ \A e \in 1 .. MaxRecords : Waiting(e) ~> Released(e)

\* three records due at once are all spawned, the second one tick after
\* the others, in front of a background that has wrapped
C34_Witness ==
    /\ level_text = LevelTogether
    /\ load_state = "loaded"
    /\ maxScroll = ShortScroll
    /\ coordinate = FZero
    /\ scroll_ticks >= 2
    /\ enemy_queue = <<>>
    /\ spawn_tick = <<1, 2, 1>>

\* C35: in one check_collisions() call an enemy is destroyed at most once:
\* explode() is called on it at most once and its points are added to the
\* score at most once, however many bullets or boxes overlap.
C35_EnemyDestroyedOncePerSweep ==
    \A e \in DOMAIN tally :
        /\ tally[e].exploded - pre.tally[e].exploded <= 1
        /\ tally[e].scored - pre.tally[e].scored <= 1

\* ------------------------------------------------------------------------
\* The player's respawn: explode(), update() and the clock
\* ------------------------------------------------------------------------
MaxClock == 4500   \* the last millisecond explored

\* time that passes between two calls
Pauses == {500, 2001}

\* wall-clock time passes: pygame.time.get_ticks() grows
Elapse ==
    /\ \E g \in Pauses :
           /\ now + g <= MaxClock
           /\ now' = now + g
    /\ UNCHANGED <<levelVars, padVars, fade, weapons, current_weapon_index,
                   current_weapon, fire_calls, inputs, fire_log, power_log,
                   input_log, scrollVars, drawVars, stackVars, gameVars,
                   histVars, spawnVars, collideVars>>

\* player.explode(), as check_collisions calls it
Call_explode ==
    /\ player.alive
    /\ player' = Player_explode([player |-> player]).player
    /\ UNCHANGED <<levelVars, padVars, fade, armVars, scrollVars, drawVars,
                   stackVars, gameVars, histVars, spawnVars, foeVars,
                   boss_level, bullets, player_shots, ghost, explosions,
                   enemy_shots, powerups, power_ups, owner_pc, player_die,
                   sweeps, ev, pre, phase_log>>

\* a new Player with lives left
InitRespawn ==
    /\ InitPlayer
    /\ player = NewPlayer(StartLives, FALSE, FALSE)

NextRespawn ==
    \/ Call_explode
    \/ Player_update
    \/ Elapse

SpecRespawn == InitRespawn /\ [][NextRespawn]_vars

\* C36: a respawning player is protected, whatever time passes between
\* explode() and the update() calls.
C36_RespawningIsProtected == player.respawning => player.protected

\* ------------------------------------------------------------------------
\* FadeAnimation as the transition of an exiting state
\* ------------------------------------------------------------------------
FadeDelay == 450   \* FadeAnimation.delay
FadeStep == 5      \* speed * TIMESTEP = 300 * (1 / 60.0) = 5.0

FadeTypes == {"in", "out"}

\* FadeAnimation.__init__(fade_type)
FadeAnimation(fade_type) ==
    [fade_type |-> fade_type,
     alpha |-> IF fade_type = "in" THEN 255 ELSE 0,
     started |-> now]

\* a delay that never ends
Delayed_ever(f, current_time) == FALSE

\* `current_time - self.started > self.delay`
Delayed(f, current_time) == current_time - f.started > FadeDelay

\* FadeAnimation.update(current_time): the animation after the call and
\* the value returned
FadeAnimation_update(f, current_time) ==
    IF Delayed(f, current_time)
    THEN LET a == IF f.fade_type = "out" THEN f.alpha + FadeStep
                  ELSE f.alpha - FadeStep
         IN  [fade |-> [f EXCEPT !.alpha = a],
              active |-> ~(a < -50 \/ a > 300)]
    ELSE [fade |-> f, active |-> TRUE]

\* what the fade runs leave alone
fadeRest ==
    <<current_state, accumulator, alpha, pc, histVars, spawnVars,
      collideVars, scrollVars, drawVars, stackVars, levelVars, padVars,
      weapons, current_weapon_index, current_weapon, fire_calls, inputs,
      fire_log, power_log, input_log>>

\* game.push_state(State(game), None), once
FadePush ==
    /\ states = <<>>
    /\ fade = NoFade
    /\ \E s \in Fresh(World) :
           Commit(push_state(NewState(World, s), s, FALSE))
    /\ UNCHANGED <<fadeRest, fade, now>>

\* state.transition_off(FadeAnimation(fade_type)) on the current state,
\* early enough for the clock explored to pass the delay
FadeOff ==
    /\ states # <<>>
    /\ fade = NoFade
    /\ now + FadeDelay + 500 <= MaxClock
    /\ \E fade_type \in FadeTypes : fade' = FadeAnimation(fade_type)
    /\ Commit(transition_off(World, Top(states)))
    /\ UNCHANGED <<fadeRest, now>>

\* state.update() on the current state, whose transition is the fade
FadeUpdate ==
    /\ states # <<>>
    /\ fade # NoFade
    /\ LET s == Top(states)
           r == FadeAnimation_update(fade, now)
       IN  IF transitioning[s]
           THEN /\ fade' = r.fade
                /\ Commit(State_update(World, s, r.active))
           ELSE /\ fade' = fade
                /\ Commit(State_update(World, s, FALSE))
    /\ UNCHANGED <<fadeRest, now>>

\* the clock of the fade runs
FadeClock ==
    /\ states # <<>>
    /\ Elapse

NextFade ==
    \/ FadePush
    \/ FadeOff
    \/ FadeUpdate
    \/ FadeClock

\* the exiting state keeps receiving update() and time keeps passing
SpecFade ==
    /\ Init
    /\ [][NextFade]_vars
    /\ WF_vars(FadeUpdate)
    /\ WF_vars(FadeClock)

\* the state given the fade is set to exit and not done yet
Exiting ==
    IF states # <<>> /\ fade # NoFade
    THEN is_exiting[Top(states)] /\ ~done_exiting[Top(states)]
    ELSE FALSE

\* the state given the fade is done exiting
DoneExiting ==
    IF states # <<>> /\ fade # NoFade
    THEN done_exiting[Top(states)]
    ELSE FALSE

\* alpha moves only after the delay, by 5 and in the direction of the fade
MovesByStep ==
    IF fade # NoFade /\ fade'.alpha # fade.alpha
    THEN /\ now - fade.started > FadeDelay
         /\ fade'.alpha =
                IF fade.fade_type = "out" THEN fade.alpha + FadeStep
                ELSE fade.alpha - FadeStep
    ELSE TRUE

\* C37: after transition_off(FadeAnimation) on a state that keeps
\* receiving update(), done_exiting eventually becomes true: past the 450
\* ms delay alpha moves by 5 per update in one direction, update() returns
\* False once alpha > 300 ('out') or alpha < -50 ('in'), and would not
\* return True afterwards.
C37_FadeOffEventuallyDone ==
    /\ Exiting ~> DoneExiting
    /\ [][MovesByStep]_vars
    /\ [][DoneExiting => DoneExiting']_vars
    /\ [](DoneExiting =>
             /\ ~transitioning[Top(states)]
             /\ fade.fade_type = "out" => fade.alpha > 300
             /\ fade.fade_type = "in" => fade.alpha < -50
             /\ ~FadeAnimation_update(fade, now).active)

\* a fade-in has run down to below -50 and the state is done exiting
C37_Witness ==
    /\ DoneExiting
    /\ fade.fade_type = "in"
    /\ fade.alpha = -55
    /\ fade.started > 0

====
